---- MODULE Spec2Model ----
(***************************************************************************)
(* Resume builder: adaptive character limiter (char_limiter.py), the      *)
(* transform/merge/validate pipeline (gemini_optimizer.py) and the        *)
(* format-preserving rebuilder (enhanced_format_system.py).               *)
(*                                                                         *)
(* Several specifications share the module, one per component or pure     *)
(* function under study.  Each one holds the variables it does not use at *)
(* their idle values.                                                      *)
(*                                                                         *)
(* Text is a sequence of glyph names.  Python's None is the empty tuple   *)
(* <<>> and a present value x of an optional is <<x>>.                     *)
(***************************************************************************)
EXTENDS Integers, Sequences, FiniteSets, TLC

VARIABLES
    \* ---- char_limiter.py -------------------------------------------------
    font,            \* the font _load_font returned: glyph widths and kerning
    prefix,          \* fixed prefix of the field being edited
    current_text,    \* what the user has typed so far
    original_text,   \* reference text of the field ("" when omitted)
    num_lines,       \* the num_lines argument: None or <<n>>
    reported_len,    \* len(current_text) at the last get_adaptive_limit call, None before it
    \* ---- gemini_optimizer.py ---------------------------------------------
    resume_content,  \* the resume content handed to optimize_resume
    char_limits,     \* the char_limits used by the call (field path -> limit)
    response,        \* what model.generate_content did on this call
    api_calls,       \* number of generate_content calls made by the current optimize_resume
    opt_result,      \* outcome of optimize_resume: status, content, report
    validation,      \* result of a direct _validate_char_limits call
    \* ---- enhanced_format_system.py ---------------------------------------
    original_doc,    \* the reference document file (sequence of paragraphs)
    format_metadata, \* metadata/format_metadata.json as loaded by the builder
    json_data,       \* the structural content map given to build_resume_from_json
    segments,        \* the text_parts of a direct replace_paragraph_multirun_with_metadata call
    output_doc,      \* the file at output_path: None, or <<document>>
    build_result,    \* outcome of the last build_resume_from_json call
    \* ---- enhanced_app.py, api_server.py ----------------------------------
    seed_file,       \* templates/resume_content_template.json
    working_file,    \* templates/resume_content.json: None while it does not exist
    session_state,   \* st.session_state: the optimization keys of the UI session
    generated,       \* outcome of the last document generation of the UI
    api_response,    \* what POST /api/v1/optimize answered last
    last_op,         \* the operation that ran last
    clock,           \* datetime.now() of the server, in seconds
    api_generated,   \* output/api_generated: file name -> document
    answers,         \* caller -> the answer that caller's POST got, None before it
    downloads,       \* caller -> what GET /api/v1/download answered that caller
    extraction       \* extract_content_with_positions: the lines read and its locals

limVars == <<font, prefix, current_text, original_text, num_lines, reported_len>>
optVars == <<resume_content, char_limits, response, api_calls, opt_result, validation>>
bldVars == <<original_doc, format_metadata, json_data, segments, output_doc, build_result>>
srvVars == <<clock, api_generated, answers, downloads>>
extVars == <<extraction>>
appVars == <<seed_file, working_file, session_state, generated, api_response, last_op, srvVars, extVars>>
vars == <<limVars, optVars, bldVars, appVars>>

None == <<>>
Some(x) == <<x>>
IsNone(o) == o = <<>>
Val(o) == o[1]

Max(a, b) == IF a >= b THEN a ELSE b
Min(a, b) == IF a <= b THEN a ELSE b

\* Python int(a / b) for b > 0: the float quotient truncated toward zero.
TruncDiv(a, b) == IF a >= 0 THEN a \div b ELSE -((-a) \div b)

\* Python a // b for b > 0: floor division.
FloorDiv(a, b) == a \div b

\* All sequences over S of length at most n.
SeqsUpTo(S, n) == UNION {[1..k -> S] : k \in 0..n}

(***************************************************************************)
(*                        char_limiter.py                                  *)
(***************************************************************************)

\* ---- bounds of the limiter model --------------------------------------
\* The line budget in pixels.  The program's value is int(7.87 * 96) = 755
\* (char_limiter.py:19-21); the model scales it down, with the glyph widths,
\* so that texts of a few glyphs fill a line.
LINE_WIDTH_PIXELS == 5
MinGlyphWidth == 2
MaxGlyphWidth == 3
MaxTextLen == 4
MaxLines == 2
MaxOrigLen == 2

\* Glyph classes: "i" a narrow and "W" a wide glyph of the width table; "bs"
\* the backslash, printable ASCII but absent from the table literal of
\* _calculate_char_widths (its last characters are  ` " \'  and \' is an
\* escaped quote); "bullet" the bullet glyph of the "\u2022 " prefix, neither
\* ASCII nor in the table.
Glyphs == {"i", "W", "bs", "bullet"}
PrintableAscii == {"i", "W", "bs"}

\* chars of _calculate_char_widths: the keys of _char_width_cache.
TableGlyphs == {"i", "W"}

\* The fonts _load_font can return (times.ttf when present, else PIL's
\* default): a width per glyph, and whether the font kerns the pair "Wi".
Fonts ==
    {f \in [width : [Glyphs -> MinGlyphWidth..MaxGlyphWidth], kern : BOOLEAN] :
        /\ f.width["i"] <= f.width["W"]
        /\ f.width["bullet"] = f.width["i"]}

\* _measure_char_width: the bounding-box width of one character.
_measure_char_width(f, c) == f.width[c]

\* Pair kerning applied by the text layout when a whole string is measured.
Kern(f, a, b) == IF f.kern /\ a = "W" /\ b = "i" THEN -1 ELSE 0

RECURSIVE SumWidths(_, _)
SumWidths(f, s) ==
    IF s = <<>> THEN 0
    ELSE _measure_char_width(f, Head(s)) + SumWidths(f, Tail(s))

RECURSIVE SumKerns(_, _)
SumKerns(f, s) ==
    IF Len(s) < 2 THEN 0
    ELSE Kern(f, s[1], s[2]) + SumKerns(f, Tail(s))

\* get_text_width: 0 for an empty text, else the bounding-box width of the
\* whole string as laid out by the font.
get_text_width(f, text) ==
    IF text = <<>> THEN 0 ELSE SumWidths(f, text) + SumKerns(f, text)

SetMax(S) == CHOOSE x \in S : \A y \in S : y <= x
SetMin(S) == CHOOSE x \in S : \A y \in S : x <= y

narrowest_char_width(f) == SetMin({_measure_char_width(f, c) : c \in TableGlyphs})

\* widest_char_width = max(self._char_width_cache.values())
widest_char_width(f) == SetMax({_measure_char_width(f, c) : c \in TableGlyphs})

\* The initial limit with the narrowest glyph as divisor.
InitialLimitByNarrowest(f, pre) ==
    TruncDiv(LINE_WIDTH_PIXELS - get_text_width(f, pre), narrowest_char_width(f))

\* A ceiling that rounds down instead.
DetectRoundingDown(f, pre, orig) ==
    IF orig = <<>> THEN 1
    ELSE Max(1, FloorDiv(get_text_width(f, pre) + get_text_width(f, orig),
                         LINE_WIDTH_PIXELS))

get_initial_limit(f, pre) ==
    LET prefix_width == IF pre # <<>> THEN get_text_width(f, pre) ELSE 0
        available_width == LINE_WIDTH_PIXELS - prefix_width
    IN  TruncDiv(available_width, widest_char_width(f))

detect_num_lines(f, pre, orig) ==
    IF orig = <<>> THEN 1
    ELSE LET prefix_width == IF pre # <<>> THEN get_text_width(f, pre) ELSE 0
             text_width == get_text_width(f, orig)
             total_width == prefix_width + text_width
         IN  Max(1, FloorDiv(total_width + LINE_WIDTH_PIXELS - 1, LINE_WIDTH_PIXELS))

\* remaining_chars = int(pixels_available / self.widest_char_width)
remaining_chars(f, pixels_available) ==
    TruncDiv(pixels_available, widest_char_width(f))

\* get_adaptive_limit.  nl is the num_lines argument (None or <<n>>).
\* percentage_used = (total_width_used / total_line_width) * 100 is a float
\* for display; its division raises ZeroDivisionError when total_line_width
\* is 0, and then nothing is returned (raised).
get_adaptive_limit(f, pre, cur, orig, nl) ==
    LET n == IF IsNone(nl)
             THEN detect_num_lines(f, pre, IF orig # <<>> THEN orig ELSE cur)
             ELSE Val(nl)
        total_line_width == LINE_WIDTH_PIXELS * n
        prefix_width == IF pre # <<>> THEN get_text_width(f, pre) ELSE 0
        user_text_width == IF cur # <<>> THEN get_text_width(f, cur) ELSE 0
        total_width_used == prefix_width + user_text_width
        pixels_available == total_line_width - total_width_used
        remaining == remaining_chars(f, pixels_available)
        current_limit == Len(cur) + remaining
        initial_limit == get_initial_limit(f, pre) * n
    IN  [raised |-> total_line_width = 0,
         current_limit |-> current_limit,
         remaining |-> remaining,
         pixels_used |-> total_width_used,
         pixels_available |-> pixels_available,
         total_pixels |-> total_line_width,
         efficiency_gain |-> current_limit - initial_limit,
         chars_typed |-> Len(cur),
         is_near_limit |-> remaining < 10,
         is_at_limit |-> remaining <= 0,
         num_lines |-> n]

\* ---- the limiter as the field editor drives it ----------------------------
Prefixes == {<<>>, <<"W">>, <<"bullet">>, <<"W", "W">>}
OrigTexts == {[i \in 1..k |-> "W"] : k \in 0..MaxOrigLen}
NumLinesArgs == {None} \cup {Some(n) : n \in 0..MaxLines}

LimIdle ==
    /\ font = [width |-> [c \in Glyphs |-> MinGlyphWidth], kern |-> FALSE]
    /\ prefix = <<>>
    /\ current_text = <<>>
    /\ original_text = <<>>
    /\ num_lines = None
    /\ reported_len = None

LimInit ==
    /\ font \in Fonts
    /\ prefix \in Prefixes
    /\ original_text \in OrigTexts
    /\ num_lines \in NumLinesArgs
    /\ current_text = <<>>
    /\ reported_len = None

\* A keystroke in the field.
Type(c) ==
    /\ Len(current_text) < MaxTextLen
    /\ current_text' = Append(current_text, c)
    /\ UNCHANGED <<font, prefix, original_text, num_lines, reported_len, optVars, bldVars, appVars>>

\* calculate_limit(prefix, current_text, original_text, num_lines) on a rerun.
CalculateLimit ==
    /\ reported_len # Some(Len(current_text))
    /\ reported_len' = Some(Len(current_text))
    /\ UNCHANGED <<font, prefix, current_text, original_text, num_lines, optVars, bldVars, appVars>>

\* The text the last report was computed from, and the report itself.
ReportedText == SubSeq(current_text, 1, Val(reported_len))
TypedSince == SubSeq(current_text, Val(reported_len) + 1, Len(current_text))
Report == get_adaptive_limit(font, prefix, ReportedText, original_text, num_lines)

LimNext ==
    \/ \E c \in PrintableAscii : Type(c)
    \/ CalculateLimit

\* ---- C1 -------------------------------------------------------------------
\* C1: whenever get_adaptive_limit reported remaining = r >= 0 for a text, that
\* text extended by r glyphs of the width table still fits the allotted lines:
\* measure(prefix) + measure(text) <= LINE_WIDTH_PIXELS * num_lines.
C1_WithinLimitNeverOverflows ==
    (/\ reported_len # None
     /\ ~Report.raised
     /\ Report.num_lines >= 1
     /\ Report.remaining >= 0
     /\ Len(TypedSince) = Report.remaining
     /\ \A i \in 1..Len(TypedSince) : TypedSince[i] \in TableGlyphs)
    => get_text_width(font, prefix) + get_text_width(font, current_text)
          <= LINE_WIDTH_PIXELS * Report.num_lines

\* ---- C2 -------------------------------------------------------------------
\* C2: get_initial_limit never overestimates: any text of get_initial_limit(prefix)
\* printable-ASCII characters after the prefix has total width <= LINE_WIDTH_PIXELS.
C2_InitialLimitNeverOverestimates ==
    (/\ Len(current_text) = get_initial_limit(font, prefix)
     /\ \A i \in 1..Len(current_text) : current_text[i] \in PrintableAscii)
    => get_text_width(font, prefix) + get_text_width(font, current_text)
          <= LINE_WIDTH_PIXELS

\* ---- C13 ------------------------------------------------------------------
\* C13: a report has pixels_available = LINE_WIDTH_PIXELS * num_lines
\* - measure(prefix) - measure(current_text), remaining = pixels_available
\* divided by widest_char_width rounded down, also when pixels_available is
\* negative, and current_limit = len(current_text) + remaining.
C13_RemainingIsFloorOfPixels ==
    (reported_len # None /\ ~Report.raised) =>
        LET pixels == LINE_WIDTH_PIXELS * Report.num_lines
                         - get_text_width(font, prefix)
                         - get_text_width(font, ReportedText)
        IN  /\ Report.pixels_available = pixels
            /\ Report.remaining = FloorDiv(pixels, widest_char_width(font))
            /\ Report.current_limit = Len(ReportedText) + Report.remaining

\* ---- C14 ------------------------------------------------------------------
\* C14: with num_lines given, is_at_limit holds exactly when remaining <= 0
\* and is_near_limit exactly when remaining < 10, so is_at_limit implies
\* is_near_limit; and a text of the same character count whose width differs
\* by at least one widest glyph gets a different remaining and current_limit.
Repeated(c, n) == [k \in 1..n |-> c]

C14_FlagsAndWidthSensitivity ==
    (reported_len # None /\ num_lines # None /\ ~Report.raised) =>
        /\ Report.is_at_limit <=> Report.remaining <= 0
        /\ Report.is_near_limit <=> Report.remaining < 10
        /\ Report.is_at_limit => Report.is_near_limit
        /\ \A c \in TableGlyphs :
              LET other == Repeated(c, Len(ReportedText))
                  rep == get_adaptive_limit(font, prefix, other, original_text, num_lines)
              IN  get_text_width(font, other) - get_text_width(font, ReportedText)
                      >= widest_char_width(font)
                  => /\ rep.remaining # Report.remaining
                     /\ rep.current_limit # Report.current_limit

\* ---- C15 ------------------------------------------------------------------
\* C15: when num_lines is given, whatever its value and whatever the texts,
\* the call returns a report whose num_lines is that value and whose pixel
\* budget is LINE_WIDTH_PIXELS times it; an empty prefix and an empty text
\* count for zero width.
C15_ExplicitLinesTakePrecedence ==
    (reported_len # None /\ num_lines # None) =>
        /\ ~Report.raised
        /\ Report.num_lines = Val(num_lines)
        /\ Report.total_pixels = LINE_WIDTH_PIXELS * Val(num_lines)
        /\ Report.pixels_used =
              (IF prefix = <<>> THEN 0 ELSE get_text_width(font, prefix))
              + (IF ReportedText = <<>> THEN 0 ELSE get_text_width(font, ReportedText))

\* ---- C16 ------------------------------------------------------------------
\* The smallest k >= 0 with total <= k * LINE_WIDTH_PIXELS.
CeilLines(total) ==
    CHOOSE k \in 0..(total + 1) :
        /\ total <= k * LINE_WIDTH_PIXELS
        /\ \A j \in 0..(k - 1) : total > j * LINE_WIDTH_PIXELS

\* C16: detect_num_lines(prefix, reference_text) is
\* max(1, ceil((measure(prefix) + measure(reference_text)) / LINE_WIDTH_PIXELS))
\* for every prefix and every reference text.
C16_DetectIsCeilingOfTotal ==
    detect_num_lines(font, prefix, original_text)
        = Max(1, CeilLines(get_text_width(font, prefix)
                           + get_text_width(font, original_text)))

\* C16 amended: for a reference text that is not empty the result is that
\* ceiling, at least 1, and k whenever the total lies in
\* ((k-1) * LINE_WIDTH_PIXELS, k * LINE_WIDTH_PIXELS]; for an empty reference
\* text the result is 1 whatever the prefix.
C16_DetectIsCeilingUnlessEmpty ==
    LET total == get_text_width(font, prefix) + get_text_width(font, original_text)
        n == detect_num_lines(font, prefix, original_text)
    IN  /\ n >= 1
        /\ original_text = <<>> => n = 1
        /\ original_text # <<>> =>
              /\ n = Max(1, CeilLines(total))
              /\ \A k \in 1..3 :
                    ((k - 1) * LINE_WIDTH_PIXELS < total /\ total <= k * LINE_WIDTH_PIXELS)
                        => n = k

\* A limit was computed for a reference text that spans more than one line.
C16_Witness ==
    /\ reported_len # None
    /\ num_lines = None
    /\ original_text # <<>>
    /\ Report.num_lines >= 2
    /\ get_text_width(font, prefix) + get_text_width(font, original_text)
          > LINE_WIDTH_PIXELS

\* ---- C29 ------------------------------------------------------------------
\* C29: with num_lines not passed, the reported num_lines and pixel budget
\* are those of the same prefix and reference text with nothing typed, for
\* every current text and also for an empty reference text; a field whose
\* reference rendering is one line is at its limit once the typed text
\* leaves no room for a widest glyph on that line.
C29_LinesIndependentOfTypedText ==
    (reported_len # None /\ num_lines = None /\ ~Report.raised) =>
        LET untyped == get_adaptive_limit(font, prefix, <<>>, original_text, None)
            one_line_left == LINE_WIDTH_PIXELS - get_text_width(font, prefix)
                                - get_text_width(font, ReportedText)
        IN  /\ Report.num_lines = untyped.num_lines
            /\ Report.total_pixels = untyped.total_pixels
            /\ (untyped.num_lines = 1 /\ remaining_chars(font, one_line_left) <= 0)
                  => Report.is_at_limit

\* ---- C17 ------------------------------------------------------------------
\* C17: get_initial_limit(prefix) = floor((LINE_WIDTH_PIXELS - measure(prefix))
\* / widest_char_width), also when the prefix is wider than one line.
C17_InitialLimitIsFloor ==
    get_initial_limit(font, prefix)
        = FloorDiv(LINE_WIDTH_PIXELS - get_text_width(font, prefix),
                   widest_char_width(font))

\* ---- C18 ------------------------------------------------------------------
\* C18: for num_lines >= 1 and a text of glyphs of the width table,
\* efficiency_gain = current_limit - get_initial_limit(prefix) * num_lines
\* and it is never negative.
C18_EfficiencyGainNeverNegative ==
    (/\ reported_len # None
     /\ ~Report.raised
     /\ Report.num_lines >= 1
     /\ \A i \in 1..Len(ReportedText) : ReportedText[i] \in TableGlyphs)
    => /\ Report.efficiency_gain
             = Report.current_limit - get_initial_limit(font, prefix) * Report.num_lines
       /\ Report.efficiency_gain >= 0

\* A report for a text of narrow glyphs with a gain above zero.
C18_Witness ==
    /\ reported_len # None
    /\ ~Report.raised
    /\ Report.num_lines >= 1
    /\ Len(ReportedText) >= 2
    /\ \A i \in 1..Len(ReportedText) : ReportedText[i] = "i"
    /\ Report.efficiency_gain > 0

\* ---- C19 ------------------------------------------------------------------
\* C19: get_text_width(s) >= 0, and get_text_width(s1 + s2)
\* = get_text_width(s1) + get_text_width(s2) for every split of a text.
C19_WidthIsAdditive ==
    /\ get_text_width(font, current_text) >= 0
    /\ \A k \in 0..Len(current_text) :
          get_text_width(font, current_text)
              = get_text_width(font, SubSeq(current_text, 1, k))
                + get_text_width(font, SubSeq(current_text, k + 1, Len(current_text)))

(***************************************************************************)
(*                        gemini_optimizer.py                              *)
(*                                                                         *)
(* Resume content has the shape extract_to_json.py produces:              *)
(*   skills        a dict  key -> {label, value, paragraph_index}          *)
(*   professional, projects, leadership   lists of entries                 *)
(*   entry         header_line, ident, tech_stack, bullets                 *)
(* ident stands for the identity fields of an entry that no code below    *)
(* reads (company/role/location/dates, name/role/dates,                    *)
(* organization/title/dates).  A JSON value that may be missing, null, a   *)
(* string or an object is a record tagged by kind.                         *)
(***************************************************************************)

\* ---- bounds of the optimizer model ----------------------------------------
MaxEntries == 1
MaxBullets == 2

\* allowed_skill_fields = {'languages', 'software', 'tools'}
AllowedSkillFields == {"languages", "software", "tools"}

\* Skill keys of the model: "languages" and "tools" are allowed ones,
\* "frameworks" is a key the extractor derives from a label "Frameworks".
ContentSkillKeys == {"languages", "frameworks"}
ResponseSkillKeys == {"languages", "frameworks", "tools"}
ListSections == {"professional", "projects", "leadership"}

LabelOf(k) == IF k = "languages" THEN <<"W">> ELSE <<"i">>
ColonSpace == <<"i">>
TechStackPrefix == <<"W">>
BulletPrefix == <<"bullet">>

ShortText == <<"i">>
LongText == <<"W", "W", "W", "W", "W", "W">>
ContentTexts == {<<"i">>, <<"W", "W">>}

TechAbsent == [kind |-> "absent", value |-> <<>>, paragraph_index |-> None]
TechNone == [kind |-> "none", value |-> <<>>, paragraph_index |-> None]
TechDict(v, p) == [kind |-> "dict", value |-> v, paragraph_index |-> p]

EmptyContent ==
    [personal |-> "personal", education |-> "education",
     skills |-> <<>>, professional |-> <<>>, projects |-> <<>>, leadership |-> <<>>]

SkillParagraph(k) == IF k = "languages" THEN 10 ELSE 11

ContentEntry(sec, tech, nb, v) ==
    [header_line |-> [paragraph_index |-> 20],
     ident |-> "Acme",
     tech_stack |-> IF sec = "leadership" THEN TechAbsent
                    ELSE IF tech THEN TechDict(v, Some(21)) ELSE TechNone,
     bullets |-> [j \in 1..nb |-> [value |-> v, paragraph_index |-> Some(21 + j)]]]

\* The content maps of the model: skills for a set of keys, and at most one
\* populated list section, of MaxEntries entries with MaxBullets bullets each.
MakeContent(keys, sec, tech, v) ==
    [EmptyContent EXCEPT
        !.skills = [k \in keys |-> [label |-> LabelOf(k), value |-> v,
                                    paragraph_index |-> Some(SkillParagraph(k))]],
        ![sec] = [i \in 1..MaxEntries |-> ContentEntry(sec, tech, MaxBullets, v)]]

Contents ==
    {MakeContent(keys, sec, tech, v) :
        keys \in SUBSET ContentSkillKeys, sec \in ListSections,
        tech \in BOOLEAN, v \in ContentTexts}

\* ---- what the transform can answer ------------------------------------------
\* A value of the response: missing, a string, or an object with or without 'value'.
RAbsent == [kind |-> "absent", has_value |-> FALSE, value |-> <<>>,
            label |-> <<>>, paragraph_index |-> None]
RStr(v) == [kind |-> "str", has_value |-> FALSE, value |-> v,
            label |-> <<>>, paragraph_index |-> None]
RDict(v) == [kind |-> "dict", has_value |-> TRUE, value |-> v,
             label |-> <<"W">>, paragraph_index |-> Some(99)]
RDictNoValue == [kind |-> "dict", has_value |-> FALSE, value |-> <<>>,
                 label |-> <<>>, paragraph_index |-> None]
RNull == [kind |-> "null", has_value |-> FALSE, value |-> <<>>,
          label |-> <<>>, paragraph_index |-> None]
AbsentList == [present |-> FALSE, items |-> <<>>]

ResponseValues == {RAbsent, RStr(LongText), RDict(ShortText), RDictNoValue}
ResponseBullets == {RStr(LongText), RDict(ShortText)}

\* Lists of the response are one element repeated, up to one longer than the
\* content's lists.
ResponseBulletLists ==
    {[present |-> TRUE, items |-> [j \in 1..n |-> b]] :
        n \in 0..(MaxBullets + 1), b \in ResponseBullets}
    \cup {AbsentList}

ResponseEntries ==
    [ident : {"Evil Corp"}, tech_stack : ResponseValues, bullets : ResponseBulletLists]

ResponseSections ==
    {[present |-> TRUE, items |-> [i \in 1..n |-> e]] :
        n \in 0..(MaxEntries + 1), e \in ResponseEntries}
    \cup {AbsentList}

ResponseSkillItems ==
    {[k \in ResponseSkillKeys |->
        IF k = "languages" THEN l ELSE IF k = "tools" THEN t ELSE f] :
        l \in ResponseValues, t \in {RAbsent, RStr(ShortText)},
        f \in {RAbsent, RStr(LongText)}}

SkillsOfKind(k) == [kind |-> k, items |-> [x \in ResponseSkillKeys |-> RAbsent]]
SkillsAllStrings == [kind |-> "dict", items |-> [x \in ResponseSkillKeys |-> RStr(LongText)]]

ResponseSkills ==
    [kind : {"dict"}, items : ResponseSkillItems]
    \cup {SkillsOfKind(k) : k \in {"absent", "str"}}

\* optimized_resume of the response: every skills answer with no list section,
\* and every answer for one list section with skills missing or all strings.
OptimizedResumes ==
    {[skills |-> sk, professional |-> AbsentList, projects |-> AbsentList,
      leadership |-> AbsentList] : sk \in ResponseSkills}
    \cup
    {[skills |-> sk,
      professional |-> IF sec = "professional" THEN es ELSE AbsentList,
      projects |-> IF sec = "projects" THEN es ELSE AbsentList,
      leadership |-> IF sec = "leadership" THEN es ELSE AbsentList] :
        sk \in {SkillsOfKind("absent"), SkillsAllStrings},
        sec \in ListSections, es \in ResponseSections}

NoOptimized ==
    [skills |-> SkillsOfKind("absent"),
     professional |-> AbsentList, projects |-> AbsentList, leadership |-> AbsentList]

\* kind: "api_error"   generate_content (or response.text) raises or times out
\*       "not_json"    the text is not JSON
\*       "non_object"  the text is JSON but not an object
\*       "object"      a JSON object; has_optimized, has_report: its keys
Responses ==
    {[kind |-> k, has_optimized |-> FALSE, has_report |-> FALSE, optimized |-> NoOptimized] :
        k \in {"api_error", "not_json", "non_object", "object"}}
    \cup [kind : {"object"}, has_optimized : {TRUE}, has_report : BOOLEAN,
          optimized : OptimizedResumes]

\* ---- _calculate_char_limits -------------------------------------------------
\* A field path: "skills.<key>", "<sec>[idx].tech_stack" or "<sec>[idx].bullets[bidx]"
\* (idx and bidx count from 0, as in the path strings).
SkillPath(k) == [sec |-> "skills", key |-> k, idx |-> 0, field |-> "", bidx |-> 0]
TechPath(sec, i) == [sec |-> sec, key |-> "", idx |-> i, field |-> "tech_stack", bidx |-> 0]
BulletPath(sec, i, j) == [sec |-> sec, key |-> "", idx |-> i, field |-> "bullets", bidx |-> j]

\* int(limit_info['current_limit'] * SAFETY_BUFFER), SAFETY_BUFFER = 0.80
BufferedLimit(f, pre, text) ==
    TruncDiv(get_adaptive_limit(f, pre, text, text, None).current_limit * 8, 10)

EntryLimitPaths(content, sec, i) ==
    LET e == content[sec][i]
    IN  (IF sec # "leadership" /\ e.tech_stack.kind = "dict"
         THEN {TechPath(sec, i - 1)} ELSE {})
        \cup {BulletPath(sec, i - 1, j - 1) : j \in 1..Len(e.bullets)}

SectionLimitPaths(content, sec) ==
    UNION {EntryLimitPaths(content, sec, i) : i \in 1..Len(content[sec])}

LimitPaths(content) ==
    {SkillPath(k) : k \in DOMAIN content.skills}
    \cup UNION {SectionLimitPaths(content, sec) : sec \in ListSections}

\* The limit of each field that gets one: the adaptive current_limit of the
\* field's own text, measured after its prefix, with the 0.80 buffer.
_calculate_char_limits(f, content) ==
    [p \in LimitPaths(content) |->
        IF p.sec = "skills"
        THEN BufferedLimit(f, content.skills[p.key].label \o ColonSpace,
                           content.skills[p.key].value)
        ELSE IF p.field = "tech_stack"
        THEN BufferedLimit(f, TechStackPrefix, content[p.sec][p.idx + 1].tech_stack.value)
        ELSE BufferedLimit(f, BulletPrefix,
                           content[p.sec][p.idx + 1].bullets[p.bidx + 1].value)]

\* ---- _parse_ai_response ---------------------------------------------------
\* The optimized_resume a response yields when the original is echoed back:
\* parsed.get("optimized_resume", original_resume) and the JSONDecodeError branch
\* both hand the original content itself to the merge.
\* Result: raised, or (optimized, report) with optimized either the response's
\* object or the original content.
\* A parser that lets the JSONDecodeError escape.
ParseRaisingOnBadJson(resp) ==
    IF resp.kind \in {"not_json", "non_object"}
    THEN [raised |-> TRUE, use_original |-> FALSE, error |-> FALSE, from_response |-> FALSE]
    ELSE [raised |-> FALSE, use_original |-> ~resp.has_optimized, error |-> FALSE,
          from_response |-> resp.has_report]

_parse_ai_response(resp) ==
    IF resp.kind = "not_json"
    THEN [raised |-> FALSE, use_original |-> TRUE, error |-> TRUE, from_response |-> FALSE]
    ELSE IF resp.kind = "non_object"
    THEN [raised |-> TRUE, use_original |-> FALSE, error |-> FALSE, from_response |-> FALSE]
    ELSE [raised |-> FALSE, use_original |-> ~resp.has_optimized, error |-> FALSE,
          from_response |-> resp.has_report]

\* ---- _merge_with_original_metadata ------------------------------------------
\* The skills part (lines 601-628).
MergeSkills(optSkills, skills) ==
    IF optSkills.kind # "dict" THEN skills
    ELSE LET touched == {k \in ResponseSkillKeys :
                            /\ optSkills.items[k].kind # "absent"
                            /\ k \in {"languages", "software", "tools"}
                            /\ \/ optSkills.items[k].kind = "str"
                               \/ optSkills.items[k].has_value}
         IN  [k \in DOMAIN skills \cup touched |->
                IF k \notin touched THEN skills[k]
                ELSE IF k \in DOMAIN skills
                THEN [skills[k] EXCEPT !.value = optSkills.items[k].value]
                ELSE IF optSkills.items[k].kind = "str"
                THEN [label |-> LabelOf(k), value |-> optSkills.items[k].value,
                      paragraph_index |-> None]
                ELSE [label |-> optSkills.items[k].label,
                      value |-> optSkills.items[k].value,
                      paragraph_index |-> optSkills.items[k].paragraph_index]]

\* tech_stack of one entry (lines 637-649, 675-686).  raised: the
\* AttributeError of orig_job.get('tech_stack', {}).get(...) when the
\* original tech_stack is null.
MergeTech(opt, orig) ==
    IF opt.kind = "str"
    THEN IF orig.kind = "dict"
         THEN [raised |-> FALSE, tech |-> [orig EXCEPT !.value = opt.value]]
         ELSE IF orig.kind = "absent"
         THEN [raised |-> FALSE, tech |-> TechDict(opt.value, None)]
         ELSE [raised |-> TRUE, tech |-> orig]
    ELSE IF opt.kind = "dict" /\ opt.has_value /\ orig.kind = "dict"
    THEN [raised |-> FALSE, tech |-> [orig EXCEPT !.value = opt.value]]
    ELSE [raised |-> FALSE, tech |-> orig]

\* bullets of one entry (lines 652-666, 689-703, 712-726); original bullets
\* are always objects.
MergeBullets(opt, bullets) ==
    IF ~opt.present THEN bullets
    ELSE [j \in 1..Len(bullets) |->
            IF j <= Len(opt.items)
               /\ (opt.items[j].kind = "str"
                   \/ (opt.items[j].kind = "dict" /\ opt.items[j].has_value))
            THEN [bullets[j] EXCEPT !.value = opt.items[j].value]
            ELSE bullets[j]]

MergeEntry(sec, optEntry, entry) ==
    LET t == IF sec = "leadership"
             THEN [raised |-> FALSE, tech |-> entry.tech_stack]
             ELSE MergeTech(optEntry.tech_stack, entry.tech_stack)
    IN  [raised |-> t.raised,
         entry |-> [entry EXCEPT !.tech_stack = t.tech,
                                 !.bullets = MergeBullets(optEntry.bullets, entry.bullets)]]

MergeSection(sec, optSection, entries) ==
    LET m == [i \in 1..Len(entries) |->
                IF optSection.present /\ i <= Len(optSection.items)
                THEN MergeEntry(sec, optSection.items[i], entries[i])
                ELSE [raised |-> FALSE, entry |-> entries[i]]]
    IN  [raised |-> \E i \in 1..Len(entries) : m[i].raised,
         entries |-> [i \in 1..Len(entries) |-> m[i].entry]]

\* merged = copy.deepcopy(original), then the sections in turn.
_merge_with_original_metadata(optimized, original) ==
    LET pro == MergeSection("professional", optimized.professional,
                            original.professional)
        prj == MergeSection("projects", optimized.projects,
                            original.projects)
        lea == MergeSection("leadership", optimized.leadership,
                            original.leadership)
    IN  [raised |-> pro.raised \/ prj.raised \/ lea.raised,
         merged |-> [original EXCEPT
                        !.skills = MergeSkills(optimized.skills, original.skills),
                        !.professional = pro.entries,
                        !.projects = prj.entries,
                        !.leadership = lea.entries]]

\* ---- _validate_char_limits --------------------------------------------------
\* get_nested_value(data, path): the value the path walk ends on.  A dict
\* reached through a key is replaced by its 'value'; a dict reached through a
\* list index is not, so a bullet path ends on the bullet's dict.
get_nested_value(data, path) ==
    IF path.sec = "skills"
    THEN IF path.key \in DOMAIN data.skills
         THEN [kind |-> "str", text |-> data.skills[path.key].value]
         ELSE [kind |-> "none", text |-> <<>>]
    ELSE LET e == data[path.sec][path.idx + 1]
         IN  IF path.field = "tech_stack"
             THEN IF e.tech_stack.kind = "dict"
                  THEN [kind |-> "str", text |-> e.tech_stack.value]
                  ELSE [kind |-> "none", text |-> <<>>]
             ELSE [kind |-> "dict", text |-> <<>>]

\* len(text) > limit
IsViolation(n, limit) == n > limit

\* A warning threshold that includes 90% itself.
IsWarningFromNinety(n, limit) == 10 * n >= 9 * limit

\* len(text) > limit * 0.9, reached only when len(text) <= limit
IsWarning(n, limit) == 10 * n > 9 * limit

LengthViolation(path) == [field |-> path, kind |-> "length"]
UnauthorizedViolation(k) == [field |-> SkillPath(k), kind |-> "unauthorized"]

_validate_char_limits(optimized_content, limits) ==
    LET unexpected_fields == DOMAIN optimized_content.skills \ AllowedSkillFields
        checked == {p \in DOMAIN limits :
                       get_nested_value(optimized_content, p).kind = "str"}
        n(p) == Len(get_nested_value(optimized_content, p).text)
        violations ==
            {UnauthorizedViolation(k) : k \in unexpected_fields}
            \cup {LengthViolation(p) : p \in {q \in checked : IsViolation(n(q), limits[q])}}
        warnings == {p \in checked : /\ ~IsViolation(n(p), limits[p])
                                     /\ IsWarning(n(p), limits[p])}
    IN  [violations |-> violations, warnings |-> warnings,
         is_valid |-> violations = {}]

\* ---- optimize_resume ---------------------------------------------------------
\* The original content in the shape of an optimized_resume object, which is
\* what the merge is given when the response carries none.
ContentValue(d) ==
    [kind |-> "dict", has_value |-> TRUE, value |-> d.value,
     label |-> <<>>, paragraph_index |-> d.paragraph_index]

ContentTech(t) ==
    IF t.kind = "dict" THEN ContentValue(t)
    ELSE IF t.kind = "none" THEN RNull ELSE RAbsent

ContentSection(entries) ==
    [present |-> TRUE,
     items |-> [i \in 1..Len(entries) |->
                  [ident |-> entries[i].ident,
                   tech_stack |-> ContentTech(entries[i].tech_stack),
                   bullets |-> [present |-> TRUE,
                                items |-> [j \in 1..Len(entries[i].bullets) |->
                                             ContentValue(entries[i].bullets[j])]]]]]

ContentAsOptimized(content) ==
    [skills |-> [kind |-> "dict",
                 items |-> [k \in ResponseSkillKeys |->
                              IF k \in DOMAIN content.skills
                              THEN [ContentValue(content.skills[k])
                                       EXCEPT !.label = content.skills[k].label]
                              ELSE RAbsent]],
     professional |-> ContentSection(content.professional),
     projects |-> ContentSection(content.projects),
     leadership |-> ContentSection(content.leadership)]

\* Lines 127-135: every skills key outside the allowed set is deleted.
RemoveUnauthorized(content) ==
    [content EXCEPT !.skills =
        [k \in DOMAIN content.skills \cap AllowedSkillFields |-> content.skills[k]]]

Raised(limits) ==
    [status |-> "raised", content |-> EmptyContent, merged |-> EmptyContent,
     report |-> [error |-> FALSE, from_response |-> FALSE,
                 char_limit_validation |-> None],
     limits |-> limits, calls |-> 1]

\* One call of optimize_resume without char_limits: the limits are computed,
\* the transform is called once (line 70), its answer parsed, merged,
\* validated and cleaned; any exception inside the try is re-raised.
optimize_resume(f, content, resp) ==
    LET limits == _calculate_char_limits(f, content)
        parsed == _parse_ai_response(resp)
        optimized == IF parsed.use_original THEN ContentAsOptimized(content)
                     ELSE resp.optimized
        m == _merge_with_original_metadata(optimized, content)
        validation_results == _validate_char_limits(m.merged, limits)
    IN  IF resp.kind = "api_error" THEN Raised(limits)
        ELSE IF parsed.raised THEN Raised(limits)
        ELSE IF optimized.skills.kind = "str" THEN Raised(limits)
        ELSE IF m.raised THEN Raised(limits)
        ELSE [status |-> "returned",
              content |-> RemoveUnauthorized(m.merged),
              merged |-> m.merged,
              report |-> [error |-> resp.kind = "not_json",
                          from_response |-> parsed.from_response,
                          char_limit_validation |-> Some(validation_results)],
              limits |-> limits, calls |-> 1]

\* ---- the optimizer as its callers drive it ------------------------------------
\* The fonts of the optimizer runs: no kerning, the narrowest "i", and a
\* backslash as wide as "W".
OptFonts ==
    {f \in Fonts : /\ ~f.kern
                   /\ f.width["i"] = MinGlyphWidth
                   /\ f.width["bs"] = f.width["W"]}

OptIdle ==
    /\ resume_content = EmptyContent
    /\ char_limits = None
    /\ response = None
    /\ api_calls = 0
    /\ opt_result = None
    /\ validation = None

OptInit ==
    /\ resume_content \in Contents
    /\ char_limits = None
    /\ response = None
    /\ api_calls = 0
    /\ opt_result = None
    /\ validation = None

\* optimizer.optimize_resume(job_description, resume_content), as api_server.py
\* and enhanced_app.py call it; resp is what the transform does on this call.
OptimizeResume(resp) ==
    /\ opt_result = None
    /\ response' = Some(resp)
    /\ LET result == optimize_resume(font, resume_content, resp)
       IN  /\ opt_result' = Some(result)
           /\ api_calls' = result.calls
    /\ UNCHANGED <<resume_content, char_limits, validation, limVars, bldVars, appVars>>

\* The caller submits the same content again after a call has ended.
Resubmit ==
    /\ opt_result # None
    /\ response' = None
    /\ opt_result' = None
    /\ api_calls' = 0
    /\ UNCHANGED <<resume_content, char_limits, validation, limVars, bldVars, appVars>>

OptNext ==
    \/ \E resp \in Responses : OptimizeResume(resp)
    \/ Resubmit

\* ---- _validate_char_limits called directly ------------------------------------
MaxValidateLen == 21
MaxValidateLimit == 20

\* A content whose every limited field holds n glyphs.
ValidateContent(n) ==
    MakeContent({"languages", "frameworks"}, "professional", TRUE,
                [i \in 1..n |-> "W"])

ValInit ==
    /\ \E n \in 0..MaxValidateLen : resume_content = ValidateContent(n)
    /\ \E L \in 0..MaxValidateLimit :
          char_limits = Some([p \in LimitPaths(resume_content) |-> L])
    /\ response = None
    /\ api_calls = 0
    /\ opt_result = None
    /\ validation = None

ValidateCharLimits ==
    /\ validation = None
    /\ validation' = Some(_validate_char_limits(resume_content, Val(char_limits)))
    /\ UNCHANGED <<resume_content, char_limits, response, api_calls, opt_result, limVars, bldVars, appVars>>

ValNext == ValidateCharLimits

\* ---- claims on the optimizer ---------------------------------------------------
Returned == opt_result # None /\ Val(opt_result).status = "returned"

\* The text of the field a limit path names.
FieldText(content, path) ==
    IF path.sec = "skills" THEN content.skills[path.key].value
    ELSE IF path.field = "tech_stack"
    THEN content[path.sec][path.idx + 1].tech_stack.value
    ELSE content[path.sec][path.idx + 1].bullets[path.bidx + 1].value

\* ---- C7 -------------------------------------------------------------------
\* C7: every field that got a limit from _calculate_char_limits, bullets
\* included, is length-checked in the merged content: a field whose text is
\* longer than its limit appears in the violations list.
C7_EveryLimitedFieldIsLengthChecked ==
    Returned =>
        LET r == Val(opt_result)
            v == Val(r.report.char_limit_validation)
        IN  \A p \in DOMAIN r.limits :
                Len(FieldText(r.merged, p)) > r.limits[p]
                    => LengthViolation(p) \in v.violations

\* ---- C8 -------------------------------------------------------------------
\* C8: _validate_char_limits puts a checked text field of length n and limit L
\* in violations iff n > L and in warnings iff 0.9*L < n <= L, never in both,
\* and is_valid holds iff the violations list is empty.
C8_LengthClassification ==
    validation # None =>
        LET v == Val(validation)
            lim == Val(char_limits)
        IN  /\ \A p \in DOMAIN lim :
                  p.field # "bullets" =>
                    LET n == Len(FieldText(resume_content, p))
                        L == lim[p]
                    IN  /\ (LengthViolation(p) \in v.violations) <=> (n > L)
                        /\ (p \in v.warnings) <=> (10 * n > 9 * L /\ n <= L)
                        /\ ~(LengthViolation(p) \in v.violations /\ p \in v.warnings)
            /\ v.is_valid <=> (v.violations = {})

\* A checked field lies in the warning band, strictly above 90% of its limit.
C8_Witness ==
    /\ validation # None
    /\ SkillPath("languages") \in Val(validation).warnings
    /\ Val(validation).is_valid = FALSE

\* ---- C9 -------------------------------------------------------------------
\* C9: whatever the response, the content optimize_resume returns keeps the
\* input's personal and education sections, every header_line, every identity
\* field and every paragraph_index present and unchanged; only values differ.
SameEntryFrame(a, b) ==
    /\ a.header_line = b.header_line
    /\ a.ident = b.ident
    /\ a.tech_stack.kind = b.tech_stack.kind
    /\ a.tech_stack.paragraph_index = b.tech_stack.paragraph_index
    /\ Len(a.bullets) = Len(b.bullets)
    /\ \A j \in 1..Len(b.bullets) :
          a.bullets[j].paragraph_index = b.bullets[j].paragraph_index

C9_OnlyValuesChange ==
    Returned =>
        LET out == Val(opt_result).content
        IN  /\ out.personal = resume_content.personal
            /\ out.education = resume_content.education
            /\ \A k \in DOMAIN resume_content.skills :
                  /\ k \in DOMAIN out.skills
                  /\ out.skills[k].label = resume_content.skills[k].label
                  /\ out.skills[k].paragraph_index = resume_content.skills[k].paragraph_index
            /\ \A sec \in ListSections :
                  /\ Len(out[sec]) = Len(resume_content[sec])
                  /\ \A i \in 1..Len(resume_content[sec]) :
                        SameEntryFrame(out[sec][i], resume_content[sec][i])

\* ---- C27 ------------------------------------------------------------------
\* C27: a skills key is reported as 'UNAUTHORIZED NEW FIELD' or removed from
\* the returned content only if the transform's response introduced it and
\* the input content does not have it; a skills category of the input is
\* never reported and never removed.
C27_OnlyIntroducedKeysAreUnauthorized ==
    Returned =>
        LET result == Val(opt_result)
            resp == Val(response)
            reported == {k \in ResponseSkillKeys \cup DOMAIN resume_content.skills :
                            UnauthorizedViolation(k) \in
                                Val(result.report.char_limit_validation).violations}
            removed == (DOMAIN resume_content.skills \cup DOMAIN result.merged.skills)
                          \ DOMAIN result.content.skills
            introduced == {k \in ResponseSkillKeys :
                              /\ result.report.from_response
                              /\ resp.optimized.skills.kind = "dict"
                              /\ resp.optimized.skills.items[k] # RAbsent}
        IN  /\ \A k \in reported \cup removed :
                  k \in introduced /\ k \notin DOMAIN resume_content.skills
            /\ \A k \in DOMAIN resume_content.skills :
                  k \notin reported /\ k \in DOMAIN result.content.skills

\* ---- C30 ------------------------------------------------------------------
\* C30: when the transform gives back every field value as it is in the
\* input, so that the merged content is the input content, the validation
\* against the limits computed from that input reports no length violation.
C30_UnchangedContentNeverViolates ==
    (Returned /\ Val(opt_result).merged = resume_content) =>
        \A p \in DOMAIN Val(opt_result).limits :
            LengthViolation(p) \notin
                Val(Val(opt_result).report.char_limit_validation).violations

RECURSIVE Concat(_)
Concat(texts) == IF texts = <<>> THEN <<>> ELSE Head(texts) \o Concat(Tail(texts))

\* paragraph.text: the run texts joined
ParaText(para) == Concat([r \in 1..Len(para.runs) |-> para.runs[r].text])

\* not text.strip()
IsBlank(text) == \A i \in 1..Len(text) : text[i] \in {"sp", "tab"}

\* Python truthiness of a value that is None or a number, None or a string,
\* None or a WD_ALIGN_PARAGRAPH member (LEFT is 0).
TruthyNumber(o) == o # None /\ Val(o) # 0
TruthyString(o) == o # None /\ Val(o) # ""
TruthyAlignment(o) == o # None /\ Val(o) # "LEFT"

\* paragraph.add_run(): an empty run that inherits every property.
NewRun == [text |-> <<>>, bold |-> None, italic |-> None,
           font_name |-> None, font_size |-> None]

EmptyDoc == [section |-> [page_height |-> None, top_margin |-> None],
             paragraphs |-> <<>>]

\* ---- FormatMetadata ---------------------------------------------------------
extract_section_properties(doc) ==
    [page_height |-> doc.section.page_height, top_margin |-> doc.section.top_margin]

\* "alignment": str(para.alignment) if para.alignment else None
extract_paragraph_format(para) ==
    [alignment |-> IF TruthyAlignment(para.alignment) THEN para.alignment ELSE None,
     left_indent |-> para.left_indent,
     keep_together |-> para.keep_together]

extract_run_format(run) ==
    [text |-> run.text, bold |-> run.bold, italic |-> run.italic,
     font_name |-> run.font_name, font_size |-> run.font_size]

\* Indices of the paragraphs that get metadata: those with non-blank text.
FormattedParagraphs(doc) ==
    {i \in 0..(Len(doc.paragraphs) - 1) : ~IsBlank(ParaText(doc.paragraphs[i + 1]))}

\* The metadata as save_metadata writes it and the builder loads it.  JSON
\* turns the integer keys into strings and the builder looks them up with
\* str(para_idx), so the keys are the paragraph indices.
extract_complete_format_metadata(doc) ==
    [section_properties |-> extract_section_properties(doc),
     paragraph_formats |->
        [i \in FormattedParagraphs(doc) |-> extract_paragraph_format(doc.paragraphs[i + 1])],
     run_formats |->
        [i \in FormattedParagraphs(doc) |->
            [r \in 1..Len(doc.paragraphs[i + 1].runs) |->
                extract_run_format(doc.paragraphs[i + 1].runs[r])]]]

\* ---- EnhancedFormatBuilder ----------------------------------------------------
\* if section_meta[...]: target_section.... = section_meta[...]
apply_section_properties(meta, doc) ==
    [doc EXCEPT !.section =
        [page_height |-> IF TruthyNumber(meta.section_properties.page_height)
                         THEN meta.section_properties.page_height
                         ELSE doc.section.page_height,
         top_margin |-> IF TruthyNumber(meta.section_properties.top_margin)
                        THEN meta.section_properties.top_margin
                        ELSE doc.section.top_margin]]

apply_paragraph_format_from_metadata(meta, para, para_idx) ==
    IF para_idx \notin DOMAIN meta.paragraph_formats THEN para
    ELSE LET m == meta.paragraph_formats[para_idx]
         IN  [para EXCEPT
                !.left_indent = IF TruthyNumber(m.left_indent) THEN m.left_indent ELSE @,
                !.keep_together = m.keep_together]

\* The assignments both run-format appliers make from one metadata run.
ApplyRunMeta(run, m) ==
    [text |-> run.text, bold |-> m.bold, italic |-> m.italic,
     font_name |-> IF TruthyString(m.font_name) THEN m.font_name ELSE run.font_name,
     font_size |-> IF TruthyNumber(m.font_size) THEN m.font_size ELSE run.font_size]

apply_run_format_from_metadata(meta, run, para_idx, run_idx) ==
    IF para_idx \notin DOMAIN meta.run_formats THEN run
    ELSE IF run_idx >= Len(meta.run_formats[para_idx]) THEN run
    ELSE ApplyRunMeta(run, meta.run_formats[para_idx][run_idx + 1])

\* for run in target_para.runs: run.text = ""
ClearRuns(para) ==
    [para EXCEPT !.runs = [r \in 1..Len(para.runs) |-> [para.runs[r] EXCEPT !.text = <<>>]]]

\* replace_paragraph_with_metadata on the paragraph at para_idx.
replace_paragraph_with_metadata(meta, para, para_idx, new_text) ==
    LET formatted == apply_paragraph_format_from_metadata(meta, ClearRuns(para), para_idx)
        runs == IF formatted.runs # <<>> THEN formatted.runs ELSE <<NewRun>>
        target_run == apply_run_format_from_metadata(
                          meta, [runs[1] EXCEPT !.text = new_text], para_idx, 0)
    IN  [formatted EXCEPT !.runs = [runs EXCEPT ![1] = target_run]]

\* A rebuild that styles the k-th written run from the k-th metadata run.
RECURSIVE WritePartsPositional(_, _, _, _)
WritePartsPositional(original_runs, runs, text_parts, run_counter) ==
    IF text_parts = <<>> THEN runs
    ELSE LET part == Head(text_parts)
         IN  IF part.text = <<>>
             THEN WritePartsPositional(original_runs, runs, Tail(text_parts), run_counter)
             ELSE LET reused == run_counter < Len(runs)
                      written == [(IF reused THEN runs[run_counter + 1] ELSE NewRun)
                                     EXCEPT !.text = part.text]
                      new_run == IF run_counter < Len(original_runs)
                                 THEN ApplyRunMeta(written, original_runs[run_counter + 1])
                                 ELSE written
                      runs2 == IF reused THEN [runs EXCEPT ![run_counter + 1] = new_run]
                               ELSE Append(runs, new_run)
                  IN  WritePartsPositional(original_runs, runs2, Tail(text_parts),
                                           run_counter + 1)

\* The loop of replace_paragraph_multirun_with_metadata over text_parts.
RECURSIVE WriteParts(_, _, _, _)
WriteParts(original_runs, runs, text_parts, run_counter) ==
    IF text_parts = <<>> THEN runs
    ELSE LET part == Head(text_parts)
         IN  IF part.text = <<>>
             THEN WriteParts(original_runs, runs, Tail(text_parts), run_counter)
             ELSE LET reused == run_counter < Len(runs)
                      written == [(IF reused THEN runs[run_counter + 1] ELSE NewRun)
                                     EXCEPT !.text = part.text]
                      new_run == IF part.run_idx < Len(original_runs)
                                 THEN ApplyRunMeta(written, original_runs[part.run_idx + 1])
                                 ELSE written
                      runs2 == IF reused THEN [runs EXCEPT ![run_counter + 1] = new_run]
                               ELSE Append(runs, new_run)
                  IN  WriteParts(original_runs, runs2, Tail(text_parts), run_counter + 1)

replace_paragraph_multirun_with_metadata(meta, para, para_idx, text_parts) ==
    LET formatted == apply_paragraph_format_from_metadata(meta, ClearRuns(para), para_idx)
        original_runs == IF para_idx \in DOMAIN meta.run_formats
                         THEN meta.run_formats[para_idx] ELSE <<>>
    IN  [formatted EXCEPT !.runs = WriteParts(original_runs, formatted.runs, text_parts, 0)]

replace_skill_line_with_metadata(meta, para, para_idx, label, value) ==
    LET formatted == apply_paragraph_format_from_metadata(meta, ClearRuns(para), para_idx)
        runs0 == IF formatted.runs # <<>> THEN formatted.runs ELSE <<NewRun>>
        run0 == apply_run_format_from_metadata(
                    meta, [runs0[1] EXCEPT !.text = label \o <<": ">>], para_idx, 0)
        runs1 == IF Len(runs0) > 1 THEN runs0 ELSE Append(runs0, NewRun)
        run1 == apply_run_format_from_metadata(
                    meta, [runs1[2] EXCEPT !.text = value], para_idx, 1)
    IN  [formatted EXCEPT !.runs = [runs1 EXCEPT ![1] = run0, ![2] = run1]]

\* ---- build_resume_from_json ----------------------------------------------------
\* The edits of a build, in the order the code makes them.  kind is the
\* replace_* method called; para_idx is None or <<index>>.
Part(text, run_idx) == [text |-> text, run_idx |-> run_idx]

SingleOp(para_idx, text) ==
    [kind |-> "single", para_idx |-> para_idx, text |-> text,
     text_parts |-> <<>>, label |-> <<>>]
MultiOp(para_idx, text_parts) ==
    [kind |-> "multirun", para_idx |-> para_idx, text |-> <<>>,
     text_parts |-> text_parts, label |-> <<>>]
SkillOp(para_idx, label, value) ==
    [kind |-> "skill", para_idx |-> para_idx, text |-> value,
     text_parts |-> <<>>, label |-> label]

\* ":" in line, and label, value = line.split(":", 1)
HasColon(line) == \E i \in 1..Len(line) : line[i] = ":"
FirstColon(line) ==
    CHOOSE i \in 1..Len(line) : line[i] = ":" /\ \A j \in 1..(i - 1) : line[j] # ":"

\* A GPA or coursework line: bold label and normal value when it has a
\* colon, else one run.
LabelledLineOp(para_idx, line) ==
    IF HasColon(line)
    THEN MultiOp(para_idx,
                 <<Part(SubSeq(line, 1, FirstColon(line)), 0),
                   Part(SubSeq(line, FirstColon(line) + 1, Len(line)), 1)>>)
    ELSE SingleOp(para_idx, line)

PersonalOps(personal) ==
    (IF personal.has_name
     THEN <<SingleOp(personal.name.paragraph_index, personal.name.value)>> ELSE <<>>)
    \o
    (IF personal.has_contact_line
     THEN <<SingleOp(personal.contact_line.paragraph_index,
                     personal.contact_line.parts.location \o <<" | ">>
                     \o personal.contact_line.parts.phone \o <<" | ">>
                     \o personal.contact_line.parts.email \o <<" | ">>
                     \o personal.contact_line.parts.linkedin \o <<" | ">>
                     \o personal.contact_line.parts.portfolio)>>
     ELSE <<>>)

\* The value of idx when the degree-line test of an education entry runs:
\* the coursework loop rebinds idx to the position of each coursework line.
IdxAfterCoursework(edu, idx) ==
    IF edu.has_coursework_paragraph_indices /\ Len(edu.coursework) > 0
    THEN Len(edu.coursework) - 1 ELSE idx

\* The separate degree line, written to the paragraph after the institution
\* line: degree_para = inst_para + 1.
DegreeLineOp(edu) ==
    MultiOp(Some(Val(edu.institution_line.paragraph_index) + 1),
            <<Part(edu.degree, 0), Part(<<"tab", "sp">>, 1),
              Part(<<"sp">>, 2), Part(edu.dates, 3)>>)

\* One pass of the education loop; idx counts from 0, nparas is
\* len(target_doc.paragraphs).
EducationOps(edu, idx, nparas) ==
    (IF edu.has_institution_line /\ idx = 0
     THEN <<MultiOp(edu.institution_line.paragraph_index,
                    <<Part(edu.university, 0), Part(<<"sp">>, 1), Part(edu.degree, 2),
                      Part(<<"tab", "sp", "tab", "sp">>, 3), Part(edu.dates, 5)>>)>>
     ELSE <<>>)
    \o
    (IF edu.gpa_paragraph_index # None
     THEN <<LabelledLineOp(edu.gpa_paragraph_index, edu.gpa)>> ELSE <<>>)
    \o
    (IF edu.has_coursework_paragraph_indices
     THEN [k \in 1..Min(Len(edu.coursework), Len(edu.coursework_paragraph_indices)) |->
             LabelledLineOp(edu.coursework_paragraph_indices[k], edu.coursework[k])]
     ELSE <<>>)
    \o
    (IF /\ IdxAfterCoursework(edu, idx) > 0
        /\ edu.has_institution_line
        /\ Val(edu.institution_line.paragraph_index) + 1 < nparas
        /\ edu.degree # <<>>
     THEN <<DegreeLineOp(edu)>>
     ELSE <<>>)

SkillsOps(skills) ==
    [k \in 1..Len(skills) |->
        SkillOp(skills[k].paragraph_index, skills[k].label, skills[k].value)]

BulletOps(bullets) ==
    [j \in 1..Len(bullets) |-> SingleOp(bullets[j].paragraph_index, bullets[j].value)]

ProfessionalOps(job) ==
    (IF job.has_header_line
     THEN <<MultiOp(job.header_line.paragraph_index,
                    <<Part(job.company \o <<", ">>, 0), Part(job.role \o <<"sp">>, 1),
                      Part(<<"| ">>, 2), Part(job.location \o <<"sp">>, 3),
                      Part(job.dates, 5)>>)>>
     ELSE <<>>)
    \o
    (IF job.tech_stack # None
     THEN <<SkillOp(Val(job.tech_stack).paragraph_index, <<"Tech Stack">>,
                    Val(job.tech_stack).value)>>
     ELSE <<>>)
    \o BulletOps(job.bullets)

\* The run structure chosen by the header's paragraph index.
ProjectHeaderParts(para_idx, proj) ==
    IF para_idx = Some(24)
    THEN <<Part(proj.name \o <<", ">>, 0), Part(proj.role \o <<"sp">>, 1),
           Part(<<"sp", "tab", "sp">>, 2), Part(proj.dates, 3)>>
    ELSE IF para_idx = Some(28)
    THEN <<Part(proj.name \o <<",">>, 0), Part(<<"sp">>, 1), Part(proj.role, 2),
           Part(<<"tab", "sp", "tab", "sp">>, 3), Part(proj.dates, 10)>>
    ELSE IF para_idx = Some(32)
    THEN <<Part(proj.name \o <<", ">>, 0),
           Part(proj.role \o <<"sp", "tab", "sp">>, 1), Part(proj.dates, 6)>>
    ELSE IF para_idx = Some(36)
    THEN <<Part(proj.name \o <<",">>, 0), Part(<<"sp">>, 1), Part(proj.role, 2),
           Part(<<"tab", "sp", "tab", "sp">>, 3), Part(proj.dates, 6)>>
    ELSE <<Part(proj.name \o <<", ">>, 0), Part(proj.role \o <<"sp">>, 1),
           Part(<<"sp", "tab", "sp">>, 2), Part(proj.dates, 3)>>

ProjectOps(proj) ==
    (IF proj.has_header_line
     THEN <<MultiOp(proj.header_line.paragraph_index,
                    ProjectHeaderParts(proj.header_line.paragraph_index, proj))>>
     ELSE <<>>)
    \o
    (IF proj.tech_stack # None
     THEN <<SingleOp(Val(proj.tech_stack).paragraph_index,
                     <<"Tech Stack: ">> \o Val(proj.tech_stack).value)>>
     ELSE <<>>)
    \o BulletOps(proj.bullets)

LeadershipOps(lead, idx) ==
    (IF lead.has_header_line
     THEN <<MultiOp(lead.header_line.paragraph_index,
                    IF idx = 0
                    THEN <<Part(lead.organization \o <<", ">>, 1),
                           Part(lead.title \o <<"sp">>, 2), Part(lead.dates, 4)>>
                    ELSE <<Part(lead.organization \o <<", ">>, 0), Part(lead.title, 1),
                           Part(<<"sp", "tab", "sp">>, 2), Part(lead.dates, 7)>>)>>
     ELSE <<>>)
    \o BulletOps(lead.bullets)

BuildOps(json, nparas) ==
    PersonalOps(json.personal)
    \o Concat([i \in 1..Len(json.education) |->
                  EducationOps(json.education[i], i - 1, nparas)])
    \o SkillsOps(json.skills)
    \o Concat([i \in 1..Len(json.professional) |-> ProfessionalOps(json.professional[i])])
    \o Concat([i \in 1..Len(json.projects) |-> ProjectOps(json.projects[i])])
    \o Concat([i \in 1..Len(json.leadership) |->
                  LeadershipOps(json.leadership[i], i - 1)])

\* target_doc.paragraphs[para_idx] succeeds.
IndexExists(para_idx, nparas) ==
    para_idx # None /\ Val(para_idx) \in 0..(nparas - 1)

ApplyOp(meta, para, op) ==
    IF op.kind = "single"
    THEN replace_paragraph_with_metadata(meta, para, Val(op.para_idx), op.text)
    ELSE IF op.kind = "multirun"
    THEN replace_paragraph_multirun_with_metadata(meta, para, Val(op.para_idx), op.text_parts)
    ELSE replace_skill_line_with_metadata(meta, para, Val(op.para_idx), op.label, op.text)

\* A builder that appends a paragraph for an index the document lacks.
RECURSIVE ApplyOpsAppending(_, _, _, _)
ApplyOpsAppending(meta, paragraphs, ops, changes) ==
    IF ops = <<>> THEN [raised |-> FALSE, paragraphs |-> paragraphs, changes |-> changes]
    ELSE IF ~IndexExists(Head(ops).para_idx, Len(paragraphs))
    THEN ApplyOpsAppending(meta,
                           Append(paragraphs,
                                  [id |-> Len(paragraphs) + 1, runs |-> <<NewRun>>,
                                   alignment |-> None, left_indent |-> None,
                                   keep_together |-> None]),
                           Tail(ops), changes + 1)
    ELSE LET i == Val(Head(ops).para_idx) + 1
         IN  ApplyOpsAppending(meta,
                      [paragraphs EXCEPT ![i] = ApplyOp(meta, paragraphs[i], Head(ops))],
                      Tail(ops), changes + 1)

\* The edits in order, up to the first one whose paragraph lookup raises.
\* changes is the local list of edits made.
RECURSIVE ApplyOps(_, _, _, _)
ApplyOps(meta, paragraphs, ops, changes) ==
    IF ops = <<>> THEN [raised |-> FALSE, paragraphs |-> paragraphs, changes |-> changes]
    ELSE IF ~IndexExists(Head(ops).para_idx, Len(paragraphs))
    THEN [raised |-> TRUE, paragraphs |-> paragraphs, changes |-> changes]
    ELSE LET i == Val(Head(ops).para_idx) + 1
         IN  ApplyOps(meta,
                      [paragraphs EXCEPT ![i] = ApplyOp(meta, paragraphs[i], Head(ops))],
                      Tail(ops), changes + 1)

\* A builder that opens and saves the reference file itself, without a copy.
BuildInPlace(meta, reference, json) ==
    LET target_doc == apply_section_properties(meta, reference)
        edited == ApplyOps(meta, target_doc.paragraphs,
                           BuildOps(json, Len(target_doc.paragraphs)), 0)
    IN  IF edited.raised
        THEN [status |-> "raised", output |-> reference, reference |-> reference]
        ELSE [status |-> "returned",
              output |-> [target_doc EXCEPT !.paragraphs = edited.paragraphs],
              reference |-> [target_doc EXCEPT !.paragraphs = edited.paragraphs]]

\* build_resume_from_json: the reference file is copied to output_path, the
\* copy is opened, edited and saved.  When an edit raises, the call raises and
\* the file at output_path is the plain copy.  The call returns output_path;
\* changes is not part of what it returns.
build_resume_from_json(meta, reference, json) ==
    LET target_doc == apply_section_properties(meta, reference)
        edited == ApplyOps(meta, target_doc.paragraphs,
                           BuildOps(json, Len(target_doc.paragraphs)), 0)
    IN  IF edited.raised
        THEN [status |-> "raised", output |-> reference, reference |-> reference]
        ELSE [status |-> "returned",
              output |-> [target_doc EXCEPT !.paragraphs = edited.paragraphs],
              reference |-> reference]

\* ---- reference documents and content maps ------------------------------------
\* Bounds of the builder model: education entries, coursework lines of the
\* first education entry, leadership entries.  Professional entries and their
\* bullets are bounded by MaxEntries and MaxBullets.
MaxEducation == 2
MaxCoursework == 2
MaxLeadership == 2

\* A reference document follows the layout the builder's run maps are written
\* for (see the comments of build_resume_from_json).  style chooses what the
\* code does not fix: whether runs name their font, whether every run has the
\* same character style, and the left indent of the paragraphs.
Styles == [named : BOOLEAN, uniform : BOOLEAN, indent : {None, Some(0), Some(3)}]

R(style, text, bold, italic) ==
    [text |-> text,
     bold |-> Some(IF style.uniform THEN FALSE ELSE bold),
     italic |-> Some(IF style.uniform THEN FALSE ELSE italic),
     font_name |-> IF style.named THEN Some("Times New Roman") ELSE None,
     font_size |-> Some(11)]

P(style, alignment, runs) ==
    [id |-> 0, runs |-> runs, alignment |-> alignment,
     left_indent |-> style.indent, keep_together |-> None]

Bullet(style, text) == P(style, Some("LEFT"), <<R(style, text, FALSE, FALSE)>>)

PersonalBlock(st) ==
    <<P(st, Some("CENTER"), <<R(st, <<"Jane Doe">>, TRUE, FALSE)>>),
      P(st, Some("CENTER"),
        <<R(st, <<"Boston", " | ", "555", " | ", "j@d.io", " | ", "in/jane", " | ", "jane.dev">>,
            FALSE, FALSE)>>),
      P(st, None, <<>>)>>

FirstEducationBlock(st) ==
    <<P(st, Some("LEFT"),
        <<R(st, <<"State University">>, TRUE, FALSE), R(st, <<"sp">>, FALSE, FALSE),
          R(st, <<"MS CS">>, FALSE, TRUE), R(st, <<"tab", "sp", "tab", "sp">>, FALSE, FALSE),
          R(st, <<>>, FALSE, FALSE), R(st, <<"2024">>, FALSE, TRUE)>>),
      P(st, Some("LEFT"),
        <<R(st, <<"Cumulative GPA", ":">>, TRUE, FALSE), R(st, <<"3.9">>, FALSE, FALSE)>>)>>
    \o [k \in 1..MaxCoursework |->
          P(st, Some("LEFT"),
            <<R(st, <<"Coursework", ":">>, TRUE, FALSE),
              R(st, <<"Algorithms">>, FALSE, FALSE)>>)]

LaterEducationBlock(st) ==
    <<P(st, Some("LEFT"), <<R(st, <<"Tech Institute">>, TRUE, FALSE)>>),
      P(st, Some("LEFT"),
        <<R(st, <<"BS EE">>, FALSE, TRUE), R(st, <<"tab", "sp">>, FALSE, TRUE),
          R(st, <<"sp">>, FALSE, FALSE), R(st, <<"2020">>, FALSE, TRUE)>>)>>

SkillsBlock(st) ==
    <<P(st, Some("LEFT"),
        <<R(st, <<"Languages", ": ">>, TRUE, FALSE), R(st, <<"Python">>, FALSE, FALSE)>>)>>

ProfessionalBlock(st) ==
    <<P(st, Some("LEFT"),
        <<R(st, <<"Acme", ", ">>, TRUE, FALSE), R(st, <<"Engineer", "sp">>, FALSE, TRUE),
          R(st, <<"| ">>, TRUE, FALSE), R(st, <<"Boston">>, FALSE, FALSE),
          R(st, <<"sp">>, FALSE, TRUE), R(st, <<"2021">>, FALSE, TRUE)>>),
      P(st, Some("LEFT"),
        <<R(st, <<"Tech Stack", ": ">>, TRUE, FALSE), R(st, <<"AWS">>, FALSE, FALSE)>>)>>
    \o [j \in 1..MaxBullets |-> Bullet(st, <<"Built things">>)]

ProjectBlock(st) ==
    <<P(st, Some("LEFT"),
        <<R(st, <<"Test-Lab", ", ">>, TRUE, FALSE), R(st, <<"Lead", "sp">>, FALSE, TRUE),
          R(st, <<"sp", "tab", "sp">>, FALSE, FALSE), R(st, <<"2022">>, FALSE, TRUE)>>),
      P(st, Some("LEFT"), <<R(st, <<"Tech Stack: ", "Go">>, FALSE, TRUE)>>),
      Bullet(st, <<"Tested things">>)>>

FirstLeadershipBlock(st) ==
    <<P(st, Some("LEFT"),
        <<R(st, <<"IEEE">>, TRUE, FALSE), R(st, <<", ">>, TRUE, FALSE),
          R(st, <<"Chair", "sp">>, FALSE, TRUE), R(st, <<>>, FALSE, FALSE),
          R(st, <<"2019">>, FALSE, TRUE)>>),
      Bullet(st, <<"Led things">>)>>

LaterLeadershipBlock(st) ==
    <<P(st, Some("LEFT"),
        <<R(st, <<"ACM", ", ">>, TRUE, FALSE), R(st, <<"Member">>, FALSE, TRUE),
          R(st, <<"sp", "tab", "sp">>, FALSE, FALSE), R(st, <<>>, FALSE, FALSE),
          R(st, <<>>, FALSE, FALSE), R(st, <<>>, FALSE, FALSE), R(st, <<>>, FALSE, FALSE),
          R(st, <<"2018">>, FALSE, TRUE)>>),
      Bullet(st, <<"Joined things">>)>>

\* Paragraph index of the first paragraph of each block.
FirstEducationAt == Len(PersonalBlock(CHOOSE st \in Styles : TRUE))
LaterEducationAt(k) == FirstEducationAt + 2 + MaxCoursework + 2 * (k - 2)
SkillsAt == LaterEducationAt(MaxEducation + 1)
ProfessionalAt(i) == SkillsAt + 1 + (i - 1) * (2 + MaxBullets)
ProjectAt == ProfessionalAt(MaxEntries + 1)
LeadershipAt(i) == ProjectAt + 3 + 2 * (i - 1)

ReferenceParagraphs(st) ==
    PersonalBlock(st) \o FirstEducationBlock(st)
    \o Concat([k \in 1..(MaxEducation - 1) |-> LaterEducationBlock(st)])
    \o SkillsBlock(st)
    \o Concat([i \in 1..MaxEntries |-> ProfessionalBlock(st)])
    \o ProjectBlock(st)
    \o FirstLeadershipBlock(st)
    \o Concat([i \in 1..(MaxLeadership - 1) |-> LaterLeadershipBlock(st)])

ReferenceDoc(st) ==
    [section |-> [page_height |-> Some(100), top_margin |-> Some(5)],
     paragraphs |-> [i \in 1..Len(ReferenceParagraphs(st)) |->
                       [ReferenceParagraphs(st)[i] EXCEPT !.id = i]]]

ReferenceDocs == {ReferenceDoc(st) : st \in Styles}

\* The structural content map extract_to_json.py gives for a reference
\* document, with what a user or the optimizer may have changed in it:
\*   nedu     number of education entries
\*   ncourse  number of coursework lines of the first education entry
\*   gpa      the GPA line
\*   dates    the dates of the professional entries
\*   bullet   the text of every professional bullet
Indexed(value, para_idx) == [value |-> value, paragraph_index |-> Some(para_idx)]

EducationEntry(k, ncourse, gpa) ==
    IF k = 1
    THEN [has_institution_line |-> TRUE,
          institution_line |-> [paragraph_index |-> Some(FirstEducationAt)],
          university |-> <<"State University">>, degree |-> <<"MS CS">>,
          dates |-> <<"2024">>,
          gpa_paragraph_index |-> Some(FirstEducationAt + 1), gpa |-> gpa,
          has_coursework_paragraph_indices |-> TRUE,
          coursework |-> [c \in 1..ncourse |-> <<"Coursework", ":", "Algorithms">>],
          coursework_paragraph_indices |->
              [c \in 1..ncourse |-> Some(FirstEducationAt + 1 + c)]]
    ELSE [has_institution_line |-> TRUE,
          institution_line |-> [paragraph_index |-> Some(LaterEducationAt(k))],
          university |-> <<"Tech Institute">>, degree |-> <<"BS EE">>,
          dates |-> <<"2020">>,
          gpa_paragraph_index |-> None, gpa |-> <<>>,
          has_coursework_paragraph_indices |-> FALSE,
          coursework |-> <<>>, coursework_paragraph_indices |-> <<>>]

ProfessionalEntry(i, dates, bullet) ==
    [has_header_line |-> TRUE,
     header_line |-> [paragraph_index |-> Some(ProfessionalAt(i))],
     company |-> <<"Acme">>, role |-> <<"Engineer">>, location |-> <<"Boston">>,
     dates |-> dates,
     tech_stack |-> Some(Indexed(<<"AWS">>, ProfessionalAt(i) + 1)),
     bullets |-> [j \in 1..MaxBullets |-> Indexed(bullet, ProfessionalAt(i) + 1 + j)]]

ProjectEntry ==
    [has_header_line |-> TRUE,
     header_line |-> [paragraph_index |-> Some(ProjectAt)],
     name |-> <<"Test-Lab">>, role |-> <<"Lead">>, dates |-> <<"2022">>,
     tech_stack |-> Some(Indexed(<<"Go">>, ProjectAt + 1)),
     bullets |-> <<Indexed(<<"Tested things">>, ProjectAt + 2)>>]

LeadershipEntry(i) ==
    [has_header_line |-> TRUE,
     header_line |-> [paragraph_index |-> Some(LeadershipAt(i))],
     organization |-> IF i = 1 THEN <<"IEEE">> ELSE <<"ACM">>,
     title |-> IF i = 1 THEN <<"Chair">> ELSE <<"Member">>,
     dates |-> IF i = 1 THEN <<"2019">> ELSE <<"2018">>,
     bullets |-> <<Indexed(IF i = 1 THEN <<"Led things">> ELSE <<"Joined things">>,
                           LeadershipAt(i) + 1)>>]

ContentMap(nedu, ncourse, gpa, dates, bullet) ==
    [personal |->
        [has_name |-> TRUE, name |-> Indexed(<<"Jane Doe">>, 0),
         has_contact_line |-> TRUE,
         contact_line |->
            [paragraph_index |-> Some(1),
             parts |-> [location |-> <<"Boston">>, phone |-> <<"555">>,
                        email |-> <<"j@d.io">>, linkedin |-> <<"in/jane">>,
                        portfolio |-> <<"jane.dev">>]]],
     education |-> [k \in 1..nedu |-> EducationEntry(k, ncourse, gpa)],
     skills |-> <<[key |-> "languages", label |-> <<"Languages">>,
                   value |-> <<"Python">>, paragraph_index |-> Some(SkillsAt)]>>,
     professional |-> [i \in 1..MaxEntries |-> ProfessionalEntry(i, dates, bullet)],
     projects |-> <<ProjectEntry>>,
     leadership |-> [i \in 1..MaxLeadership |-> LeadershipEntry(i)]]

ContentMaps ==
    {ContentMap(nedu, ncourse, gpa, dates, bullet) :
        nedu \in 1..MaxEducation, ncourse \in 0..MaxCoursework,
        gpa \in {<<"Cumulative GPA", ":", "3.9">>, <<"3.9/4.0">>},
        dates \in {<<"2021">>, <<>>},
        bullet \in {<<"Built things">>, <<"Shipped", "more", "things">>}}

\* Content maps of two education entries in which a user has rewritten or
\* emptied the degree of the second one.
EditedDegrees == {<<"BS EE">>, <<"BEng">>, <<>>}

EditedMaps ==
    {[ContentMap(2, ncourse, <<"3.9/4.0">>, <<"2021">>, <<"Built things">>)
         EXCEPT !.education[2].degree = degree] :
        ncourse \in 0..MaxCoursework, degree \in EditedDegrees}

\* ---- the builder as its callers drive it ---------------------------------------
BldIdle ==
    /\ original_doc = EmptyDoc
    /\ format_metadata = None
    /\ json_data = None
    /\ segments = <<>>
    /\ output_doc = None
    /\ build_result = None

BldInit ==
    /\ original_doc \in ReferenceDocs
    /\ format_metadata = None
    /\ json_data \in {Some(m) : m \in ContentMaps}
    /\ segments = <<>>
    /\ output_doc = None
    /\ build_result = None

BldEdited ==
    /\ original_doc \in ReferenceDocs
    /\ format_metadata = None
    /\ json_data \in {Some(m) : m \in EditedMaps}
    /\ segments = <<>>
    /\ output_doc = None
    /\ build_result = None

\* FormatMetadata(original).save_metadata("metadata/format_metadata.json")
SaveMetadata ==
    /\ format_metadata # Some(extract_complete_format_metadata(original_doc))
    /\ format_metadata' = Some(extract_complete_format_metadata(original_doc))
    /\ UNCHANGED <<original_doc, json_data, segments, output_doc, build_result, limVars, optVars, appVars>>

\* The reference .docx is edited outside the program: one paragraph goes.
\* The model lets this happen once, to the first paragraph, the blank one
\* or the last one.
DriftPositions == {1, 3, Len(original_doc.paragraphs)}

RemoveParagraph(i) ==
    /\ Len(original_doc.paragraphs) = Len(ReferenceParagraphs(CHOOSE st \in Styles : TRUE))
    /\ i \in DriftPositions
    /\ original_doc' =
          [original_doc EXCEPT !.paragraphs =
              SubSeq(@, 1, i - 1) \o SubSeq(@, i + 1, Len(@))]
    /\ UNCHANGED <<format_metadata, json_data, segments, output_doc, build_result, limVars, optVars, appVars>>

\* EnhancedFormatBuilder(reference).build_resume_from_json(json_data, output).
\* The reference file after the call is what the call left of it.  given is
\* what the call was made with; previous is the call before it: what that
\* one was made with and what it produced.
Build ==
    /\ format_metadata # None
    /\ LET given == [reference |-> original_doc,
                     metadata |-> Val(format_metadata),
                     json |-> Val(json_data)]
           result == build_resume_from_json(given.metadata, given.reference, given.json)
       IN  /\ output_doc' = Some(result.output)
           /\ original_doc' = result.reference
           /\ build_result' = Some([status |-> result.status,
                                    reference |-> result.reference,
                                    metadata |-> Val(format_metadata),
                                    given |-> given,
                                    previous |->
                                        IF build_result = None THEN None
                                        ELSE Some([given |-> Val(build_result).given,
                                                   status |-> Val(build_result).status,
                                                   output |-> Val(output_doc)])])
    /\ UNCHANGED <<format_metadata, json_data, segments, limVars, optVars, appVars>>

BldNext ==
    \/ SaveMetadata
    \/ \E i \in DriftPositions : RemoveParagraph(i)
    \/ Build

\* ---- replace_paragraph_multirun_with_metadata called directly -------------------
MaxRuns == 2
MaxMetaRuns == 3
MaxSegments == 3

OldRun == [text |-> <<"old">>, bold |-> Some(FALSE), italic |-> Some(TRUE),
           font_name |-> Some("Arial"), font_size |-> Some(9)]

\* Metadata runs styled bold, italic, plain, italic, ...
MetaRun(k) ==
    [text |-> <<"was">>, bold |-> Some(k = 1), italic |-> Some(k % 2 = 0),
     font_name |-> None, font_size |-> Some(11)]

SegmentLists ==
    SeqsUpTo([text : {<<>>, <<"a">>}, run_idx : 0..(MaxMetaRuns - 1)], MaxSegments)

MultirunInit ==
    /\ \E n \in 0..MaxRuns :
          original_doc =
             [EmptyDoc EXCEPT !.paragraphs =
                 <<[id |-> 1, runs |-> [r \in 1..n |-> OldRun], alignment |-> None,
                    left_indent |-> None, keep_together |-> None]>>]
    /\ \E m \in 0..MaxMetaRuns, recorded \in BOOLEAN :
          format_metadata =
             Some([section_properties |-> extract_section_properties(EmptyDoc),
                   paragraph_formats |->
                      [i \in (IF recorded THEN {0} ELSE {}) |->
                          [alignment |-> None, left_indent |-> None,
                           keep_together |-> None]],
                   run_formats |->
                      [i \in (IF recorded THEN {0} ELSE {}) |->
                          [k \in 1..m |-> MetaRun(k)]]])
    /\ segments \in SegmentLists
    /\ json_data = None
    /\ output_doc = None
    /\ build_result = None

ReplaceMultirun ==
    /\ output_doc = None
    /\ output_doc' =
          Some([original_doc EXCEPT !.paragraphs[1] =
                   replace_paragraph_multirun_with_metadata(
                       Val(format_metadata), @, 0, segments)])
    /\ UNCHANGED <<original_doc, format_metadata, json_data, segments, build_result, limVars, optVars, appVars>>

MultirunNext == ReplaceMultirun

\* ---- the format appliers and the single-run replace called directly ------------
\* The other paragraph of the document, which no call names.
Bystander ==
    [id |-> 2, runs |-> <<OldRun>>, alignment |-> None, left_indent |-> Some(3),
     keep_together |-> None]

\* What a numeric property of a document or of the metadata can hold: nothing,
\* zero, or a length.
TargetNumbers == {None, Some(0), Some(3)}
MetaNumbers == {None, Some(0), Some(5)}

\* Run 0 as the metadata records it: the font named or inherited.
RecordedRun(named) ==
    [MetaRun(1) EXCEPT !.font_name = IF named THEN Some("Times New Roman") ELSE None]

NewTexts == {<<>>, <<"a">>, <<"a", "b">>}

ReplaceInit ==
    /\ \E n \in 0..MaxRuns, indent \in TargetNumbers, height \in TargetNumbers :
          original_doc =
             [section |-> [page_height |-> height, top_margin |-> Some(3)],
              paragraphs |->
                 <<[id |-> 1, runs |-> [r \in 1..n |-> OldRun], alignment |-> None,
                    left_indent |-> indent, keep_together |-> None],
                   Bystander>>]
    /\ \E m \in 0..1, recorded \in BOOLEAN, named \in BOOLEAN,
          indent \in MetaNumbers, height \in MetaNumbers :
          format_metadata =
             Some([section_properties |-> [page_height |-> height, top_margin |-> None],
                   paragraph_formats |->
                      [i \in (IF recorded THEN {0} ELSE {}) |->
                          [alignment |-> None, left_indent |-> indent,
                           keep_together |-> Some(FALSE)]],
                   run_formats |->
                      [i \in (IF recorded THEN {0} ELSE {}) |->
                          [k \in 1..m |-> RecordedRun(named)]]])
    /\ \E t \in NewTexts : segments = <<[text |-> t, run_idx |-> 0]>>
    /\ json_data = None
    /\ output_doc = None
    /\ build_result = None

\* builder.replace_paragraph_with_metadata(0, new_text, target_doc)
ReplaceParagraph ==
    /\ output_doc = None
    /\ output_doc' =
          Some([original_doc EXCEPT !.paragraphs[1] =
                   replace_paragraph_with_metadata(
                       Val(format_metadata), @, 0, segments[1].text)])
    /\ build_result' = Some([call |-> "replace_paragraph_with_metadata"])
    /\ UNCHANGED <<original_doc, format_metadata, json_data, segments, limVars, optVars, appVars>>

\* builder.apply_section_properties(target_doc)
ApplySectionProperties ==
    /\ output_doc = None
    /\ output_doc' = Some(apply_section_properties(Val(format_metadata), original_doc))
    /\ build_result' = Some([call |-> "apply_section_properties"])
    /\ UNCHANGED <<original_doc, format_metadata, json_data, segments, limVars, optVars, appVars>>

\* builder.apply_paragraph_format_from_metadata(target_doc.paragraphs[0], 0)
ApplyParagraphFormat ==
    /\ output_doc = None
    /\ output_doc' =
          Some([original_doc EXCEPT !.paragraphs[1] =
                   apply_paragraph_format_from_metadata(Val(format_metadata), @, 0)])
    /\ build_result' = Some([call |-> "apply_paragraph_format_from_metadata"])
    /\ UNCHANGED <<original_doc, format_metadata, json_data, segments, limVars, optVars, appVars>>

ReplaceNext ==
    \/ ReplaceParagraph
    \/ ApplySectionProperties
    \/ ApplyParagraphFormat

\* ---- claims on the builder ------------------------------------------------------
Built == build_result # None
BuildReturned == Built /\ Val(build_result).status = "returned"

\* Some field of the content map names a paragraph index the document the
\* build copied does not have.
FieldIndexMissing ==
    LET n == Len(Val(build_result).reference.paragraphs)
        ops == BuildOps(Val(json_data), n)
    IN  \E k \in 1..Len(ops) : ~IndexExists(ops[k].para_idx, n)

\* ---- C3 -------------------------------------------------------------------
\* C3: when a field of the content map names a paragraph index the live
\* document lacks, build_resume_from_json does not raise: it skips that field,
\* applies the others, saves the output, and its result shows the skip.
C3_DriftSkipsField ==
    (Built /\ FieldIndexMissing) =>
        /\ Val(build_result).status = "returned"
        /\ "skipped" \in DOMAIN Val(build_result)

\* ---- C4 -------------------------------------------------------------------
\* The build used metadata extracted from the document it copied, the document
\* has not changed since, and every paragraph got back the text it had.
RoundTrip ==
    /\ BuildReturned
    /\ Val(build_result).reference = original_doc
    /\ Val(build_result).metadata = extract_complete_format_metadata(original_doc)
    /\ \A p \in 1..Len(original_doc.paragraphs) :
          ParaText(Val(output_doc).paragraphs[p]) = ParaText(original_doc.paragraphs[p])

SameRunStyle(a, b) ==
    /\ a.bold = b.bold
    /\ a.italic = b.italic
    /\ a.font_name = b.font_name
    /\ a.font_size = b.font_size

\* C4: after a round trip, run r of paragraph p of the output has the bold,
\* italic, font name and font size of run r of paragraph p of the original,
\* and paragraph p its alignment and indents, for every p and r.
C4_RoundTripKeepsRunStyles ==
    RoundTrip =>
        \A p \in 1..Len(original_doc.paragraphs) :
            LET o == original_doc.paragraphs[p]
                g == Val(output_doc).paragraphs[p]
            IN  /\ g.alignment = o.alignment
                /\ g.left_indent = o.left_indent
                /\ \A r \in 1..Len(o.runs) :
                      r <= Len(g.runs) /\ SameRunStyle(g.runs[r], o.runs[r])

\* ---- C5 -------------------------------------------------------------------
HasText(x) == x.text # <<>>

\* The metadata runs of the paragraph, and whether they hold every run a
\* segment names.
MetaRuns ==
    IF 0 \in DOMAIN Val(format_metadata).run_formats
    THEN Val(format_metadata).run_formats[0] ELSE <<>>
NamedRunsExist == \A k \in 1..Len(segments) : segments[k].run_idx < Len(MetaRuns)

\* The runs with text are, in order, the segments segs: same text, and the
\* bold and italic flags of the metadata run each segment names.
RunsMatch(para, segs) ==
    LET text_runs == SelectSeq(para.runs, HasText)
    IN  /\ Len(text_runs) = Len(segs)
        /\ \A k \in 1..Len(segs) :
              /\ text_runs[k].text = segs[k].text
              /\ text_runs[k].bold = MetaRuns[segs[k].run_idx + 1].bold
              /\ text_runs[k].italic = MetaRuns[segs[k].run_idx + 1].italic
        /\ ParaText(para) = Concat([k \in 1..Len(segments) |-> segments[k].text])

\* C5 as stated: when every named run exists in the metadata, the runs that
\* carry text correspond one-to-one, in order, to the segments, each with its
\* segment's text and the named run's bold and italic, and the paragraph text
\* is the concatenation of the segment texts.
C5_RunsMatchAllSegments ==
    (output_doc # None /\ NamedRunsExist) =>
        RunsMatch(Val(output_doc).paragraphs[1], segments)

\* C5 amended: the same, for the segments whose text is not empty; a segment
\* with empty text gets no run.
C5_RunsMatchNonEmptySegments ==
    (output_doc # None /\ NamedRunsExist) =>
        RunsMatch(Val(output_doc).paragraphs[1], SelectSeq(segments, HasText))

\* A rebuild of a paragraph with more runs than segments, where a segment is
\* empty and a later one names a run other than the one it is written to.
C5_Witness ==
    /\ output_doc # None
    /\ NamedRunsExist
    /\ Len(original_doc.paragraphs[1].runs) = MaxRuns
    /\ Len(segments) = MaxSegments
    /\ segments[1].text = <<>>
    /\ segments[2].text # <<>> /\ segments[2].run_idx = 2
    /\ segments[3].text # <<>> /\ segments[3].run_idx = 0

\* ---- C6 -------------------------------------------------------------------
\* C6: the output of build_resume_from_json has the paragraphs of the
\* reference document it copied: as many, in the same order.
C6_ParagraphsNeitherAddedNorRemoved ==
    Built =>
        LET out == Val(output_doc).paragraphs
            ref == Val(build_result).reference.paragraphs
        IN  /\ Len(out) = Len(ref)
            /\ \A p \in 1..Len(ref) : out[p].id = ref[p].id

\* A build that rewrote a paragraph's text.
C6_Witness ==
    /\ BuildReturned
    /\ \E p \in 1..Len(Val(output_doc).paragraphs) :
          ParaText(Val(output_doc).paragraphs[p])
             # ParaText(Val(build_result).reference.paragraphs[p])

\* A build on a drifted document that raised.
C6_WitnessRaised ==
    /\ Built
    /\ Val(build_result).status = "raised"
    /\ FieldIndexMissing

\* ---- C20 ------------------------------------------------------------------
\* C20: a build leaves the reference document as it was given, and a build
\* made with the reference, the metadata and the content map of the build
\* before it ends the same way with the same output document: the same
\* paragraphs, run texts and run and paragraph styles.
C20_RebuildIsRepeatable ==
    Built =>
        LET b == Val(build_result)
        IN  /\ b.reference = b.given.reference
            /\ (b.previous # None /\ Val(b.previous).given = b.given)
                  => /\ Val(b.previous).status = b.status
                     /\ Val(b.previous).output = Val(output_doc)
                     /\ Val(b.previous).output.paragraphs = Val(output_doc).paragraphs

\* A second build on the inputs of the first, both returning a document that
\* differs from the reference.
C20_Witness ==
    /\ BuildReturned
    /\ Val(build_result).previous # None
    /\ Val(Val(build_result).previous).given = Val(build_result).given
    /\ Val(Val(build_result).previous).status = "returned"
    /\ Val(output_doc) # Val(build_result).given.reference

\* ---- C21 ------------------------------------------------------------------
Called(name) == build_result # None /\ Val(build_result) = [call |-> name]

\* C21: after replace_paragraph_with_metadata(p, new_text) the text of
\* paragraph p is new_text, held by its first run, every other run of p is
\* empty, the first run has the bold, italic, font name and font size the
\* metadata records for run 0 of p, and no other paragraph is changed.
C21_SingleRunReplace ==
    Called("replace_paragraph_with_metadata") =>
        LET meta == Val(format_metadata)
            p == Val(output_doc).paragraphs[1]
        IN  /\ ParaText(p) = segments[1].text
            /\ p.runs # <<>>
            /\ p.runs[1].text = segments[1].text
            /\ \A r \in 2..Len(p.runs) : p.runs[r].text = <<>>
            /\ (0 \in DOMAIN meta.run_formats /\ meta.run_formats[0] # <<>>)
                  => SameRunStyle(p.runs[1], meta.run_formats[0][1])
            /\ Len(Val(output_doc).paragraphs) = Len(original_doc.paragraphs)
            /\ Val(output_doc).paragraphs[2] = original_doc.paragraphs[2]

\* ---- C22 ------------------------------------------------------------------
\* C22: apply_section_properties and apply_paragraph_format_from_metadata
\* write a numeric property of the target exactly when the metadata value is
\* not null: a value that is not null, 0 included, becomes the target's, and
\* null leaves the target's property as it was.
C22_NonNullNumbersOverwrite ==
    LET meta == Val(format_metadata)
    IN  /\ Called("apply_section_properties") =>
              Val(output_doc).section.page_height =
                 IF meta.section_properties.page_height # None
                 THEN meta.section_properties.page_height
                 ELSE original_doc.section.page_height
        /\ (Called("apply_paragraph_format_from_metadata")
            /\ 0 \in DOMAIN meta.paragraph_formats) =>
              Val(output_doc).paragraphs[1].left_indent =
                 IF meta.paragraph_formats[0].left_indent # None
                 THEN meta.paragraph_formats[0].left_indent
                 ELSE original_doc.paragraphs[1].left_indent

\* ---- C24 ------------------------------------------------------------------
\* The paragraph indices the content map records: each field's
\* paragraph_index, gpa_paragraph_index and coursework_paragraph_indices.
RecordedIndices(json) ==
    LET OfSeq(f, n) == UNION {f[k] : k \in 1..n}
        OfBullets(bullets) == {bullets[j].paragraph_index : j \in 1..Len(bullets)}
        OfTech(e) == IF e.tech_stack # None THEN {Val(e.tech_stack).paragraph_index} ELSE {}
        OfHeader(e) == IF e.has_header_line THEN {e.header_line.paragraph_index} ELSE {}
        OfEntry(e) == OfHeader(e) \cup OfBullets(e.bullets)
        OfEducation(edu) ==
            (IF edu.has_institution_line THEN {edu.institution_line.paragraph_index} ELSE {})
            \cup {edu.gpa_paragraph_index}
            \cup (IF edu.has_coursework_paragraph_indices
                  THEN {edu.coursework_paragraph_indices[c] :
                           c \in 1..Len(edu.coursework_paragraph_indices)}
                  ELSE {})
    IN  (IF json.personal.has_name THEN {json.personal.name.paragraph_index} ELSE {})
        \cup (IF json.personal.has_contact_line
              THEN {json.personal.contact_line.paragraph_index} ELSE {})
        \cup OfSeq([k \in 1..Len(json.education) |-> OfEducation(json.education[k])],
                   Len(json.education))
        \cup {json.skills[k].paragraph_index : k \in 1..Len(json.skills)}
        \cup OfSeq([k \in 1..Len(json.professional) |->
                       OfEntry(json.professional[k]) \cup OfTech(json.professional[k])],
                   Len(json.professional))
        \cup OfSeq([k \in 1..Len(json.projects) |->
                       OfEntry(json.projects[k]) \cup OfTech(json.projects[k])],
                   Len(json.projects))
        \cup OfSeq([k \in 1..Len(json.leadership) |-> OfEntry(json.leadership[k])],
                   Len(json.leadership))

\* C24: a build changes a paragraph only if the content map it was given
\* records that paragraph's index; every other paragraph has in the output
\* the runs and the format it has in the reference document.
C24_OnlyRecordedParagraphsChange ==
    Built =>
        LET given == Val(build_result).given
        IN  \A p \in 1..Len(given.reference.paragraphs) :
                Some(p - 1) \notin RecordedIndices(given.json)
                    => /\ p <= Len(Val(output_doc).paragraphs)
                       /\ Val(output_doc).paragraphs[p] = given.reference.paragraphs[p]

\* ---- C26 ------------------------------------------------------------------
\* C26: the separate degree line is written exactly for the education
\* entries at position 2 or later that have an institution line and a degree
\* (and whose next paragraph exists), and never for the first entry, however
\* many coursework lines an entry has.
C26_DegreeLineOnlyForLaterEntries ==
    Built =>
        LET given == Val(build_result).given
            n == Len(given.reference.paragraphs)
            ops == BuildOps(given.json, n)
        IN  \A k \in 1..Len(given.json.education) :
                LET edu == given.json.education[k]
                IN  (\E j \in 1..Len(ops) : ops[j] = DegreeLineOp(edu))
                    <=> /\ k >= 2
                        /\ edu.has_institution_line
                        /\ edu.degree # <<>>
                        /\ Val(edu.institution_line.paragraph_index) + 1 < n

(***************************************************************************)
(*                           extract_to_json.py                            *)
(***************************************************************************)
\* A paragraph text, by what extract_content_with_positions tests of it:
\*   header  text.upper() when it is one of the five section names, else ""
\*   has     the substrings and patterns found in it: "University" (or
\*           'College'), "GPA", "Coursework", "DegreeWord" ('Bachelor',
\*           'Master' or 'Engineering'), ":", "Tech Stack:", "bullet" (it
\*           starts with the bullet glyph), "dates" (a month name or 20dd),
\*           "," and "|"
\*   key     the skills key its label gives (text before the first colon)
\*   degree  parse_education_header(text)["degree"]
Line(text, header, has, key, degree) ==
    [text |-> text, header |-> header, has |-> has, key |-> key, degree |-> degree]

SectionNames ==
    {"EDUCATION", "TECHNICAL SKILLS", "PROFESSIONAL EXPERIENCE",
     "PROJECT EXPERIENCE", "LEADERSHIP EXPERIENCE"}

Lines ==
    {Line(h, h, {}, "", "") : h \in SectionNames}
    \cup {Line("State University", "", {"University"}, "", ""),
          Line("Cumulative GPA: 3.9", "", {"GPA", ":"}, "cumulative_gpa", ""),
          Line("Languages: Python", "", {":"}, "languages", ""),
          Line("Tech Stack: AWS", "", {"Tech Stack:", ":"}, "tech_stack", ""),
          Line("Acme, Engineer June 2021", "", {"dates", ","}, "", ""),
          Line("* Built things", "", {"bullet"}, "", ""),
          Line("Built things", "", {}, "", "")}

\* The longest document read.
MaxParas == 4

\* Lines 94-105 and 129-130: the empty map and the loop's locals.
ExtractStart ==
    [paras |-> <<>>, current_section |-> "", current_entry |-> None, raised |-> FALSE,
     content |-> [personal |-> [name |-> None, contact_line |-> None],
                  education |-> <<>>, skills |-> [k \in {} |-> None],
                  professional |-> <<>>, projects |-> <<>>, leadership |-> <<>>]]

ExtInit == extraction = ExtractStart

\* The list of the content map a section's entries go to.
ListOf(section) ==
    CASE section = "EDUCATION" -> "education"
      [] section = "PROFESSIONAL EXPERIENCE" -> "professional"
      [] section = "PROJECT EXPERIENCE" -> "projects"
      [] section = "LEADERSHIP EXPERIENCE" -> "leadership"
      [] OTHER -> ""

\* A section header that leaves the open entry open.
OpenSectionKeepingEntry(st, line) ==
    [st EXCEPT !.current_section = line.header]

\* Lines 134-137: a section header.
OpenSection(st, line) ==
    [st EXCEPT !.current_section = line.header, !.current_entry = None]

\* current_entry = entry; content[list].append(current_entry).  The open
\* entry is an object of one of the lists: the model names the list and the
\* entry's position in it.
OpenEntry(st, list, entry) ==
    [st EXCEPT !.content[list] = Append(@, entry),
               !.current_entry = Some([list |-> list, k |-> Len(st.content[list]) + 1])]

\* current_entry["bullets"].append({"value": text, "paragraph_index": para_idx});
\* an education entry has no 'bullets' key, and the lookup raises KeyError.
AppendBullet(st, line, para_idx) ==
    LET e == Val(st.current_entry)
    IN  IF e.list = "education" THEN [st EXCEPT !.raised = TRUE]
        ELSE [st EXCEPT !.content[e.list][e.k].bullets =
                            Append(@, [value |-> line.text, paragraph_index |-> para_idx])]

\* Lines 140-166.  The keys 'coursework' and 'degree' are read, and exist in
\* education entries only; 'gpa' is assigned.
EducationLine(st, line, para_idx) ==
    IF "University" \in line.has
    THEN OpenEntry(st, "education",
                   [institution_line |-> para_idx, degree |-> line.degree,
                    gpa |-> "", gpa_paragraph_index |-> None,
                    coursework |-> <<>>, coursework_paragraph_indices |-> <<>>])
    ELSE IF st.current_entry = None THEN st
    ELSE LET e == Val(st.current_entry)
             own == e.list = "education"
         IN  IF "GPA" \in line.has
             THEN IF own
                  THEN [st EXCEPT !.content.education[e.k].gpa = line.text,
                                  !.content.education[e.k].gpa_paragraph_index =
                                      Some(para_idx)]
                  ELSE st
             ELSE IF "Coursework" \in line.has
             THEN IF own
                  THEN [st EXCEPT !.content.education[e.k].coursework =
                                      Append(@, line.text),
                                  !.content.education[e.k].coursework_paragraph_indices =
                                      Append(@, para_idx)]
                  ELSE [st EXCEPT !.raised = TRUE]
             ELSE IF "DegreeWord" \in line.has
             THEN IF ~own THEN [st EXCEPT !.raised = TRUE]
                  ELSE IF st.content.education[e.k].degree = "" /\ line.degree # ""
                  THEN [st EXCEPT !.content.education[e.k].degree = line.degree]
                  ELSE st
             ELSE st

\* Lines 169-175.
SkillsLine(st, line, para_idx) ==
    IF ":" \in line.has
    THEN [st EXCEPT !.content.skills =
             (line.key :> [value |-> line.text, paragraph_index |-> para_idx])
                @@ st.content.skills]
    ELSE st

\* Lines 178-201, 204-226 and 229-247: the three sections of entries with
\* bullets.  Leadership has no tech-stack branch; a professional header may
\* have a pipe in place of the comma.
ExperienceLine(st, list, line, para_idx) ==
    IF list # "leadership" /\ "Tech Stack:" \in line.has
    THEN IF st.current_entry # None /\ Val(st.current_entry).list # "education"
         THEN [st EXCEPT !.content[Val(st.current_entry).list][Val(st.current_entry).k].tech_stack =
                             Some([value |-> line.text, paragraph_index |-> para_idx])]
         ELSE st
    ELSE IF "bullet" \notin line.has
    THEN IF /\ "dates" \in line.has
            /\ \/ "," \in line.has
               \/ (list = "professional" /\ "|" \in line.has)
         THEN OpenEntry(st, list,
                        [header_line |-> para_idx, tech_stack |-> None, bullets |-> <<>>])
         ELSE IF st.current_entry # None
         THEN AppendBullet(st, line, para_idx)
         ELSE st
    ELSE IF st.current_entry # None
    THEN AppendBullet(st, line, para_idx)
    ELSE st

\* Lines 110-127: the first two texts are the name and the contact line.
PersonalLine(st, line, para_idx) ==
    IF para_idx = 0 THEN [st EXCEPT !.content.personal.name = Some(line.text)]
    ELSE IF para_idx = 1 THEN [st EXCEPT !.content.personal.contact_line = Some(line.text)]
    ELSE st

\* One pass of the loop of lines 132-247 over the text at para_idx.
extract_line(st, line, para_idx) ==
    LET p == PersonalLine(st, line, para_idx)
    IN  IF line.header # "" THEN OpenSection(p, line)
        ELSE IF p.current_section = "EDUCATION" THEN EducationLine(p, line, para_idx)
        ELSE IF p.current_section = "TECHNICAL SKILLS" THEN SkillsLine(p, line, para_idx)
        ELSE IF ListOf(p.current_section) # ""
        THEN ExperienceLine(p, ListOf(p.current_section), line, para_idx)
        ELSE p

\* The document has one more paragraph; the extraction reads it.
ExtractLine(line) ==
    /\ Len(extraction.paras) < MaxParas
    /\ ~extraction.raised
    /\ \E next \in {extract_line(extraction, line, Len(extraction.paras))} :
          extraction' = [next EXCEPT !.paras = Append(extraction.paras, line)]
    /\ UNCHANGED <<limVars, optVars, bldVars, seed_file, working_file, session_state,
                   generated, api_response, last_op, srvVars>>

ExtNext == \E line \in Lines : ExtractLine(line)

\* ---- C25 ------------------------------------------------------------------
\* The content map without the personal part, which the first two texts fill.
Body(content) == [content EXCEPT !.personal = ExtractStart.content.personal]

\* The bullets of the entry an open-entry reference names.
BulletsOf(content, e) ==
    IF e.list = "education" THEN <<>> ELSE content[e.list][e.k].bullets

\* The content with the text at para_idx appended as a bullet to entry e.
WithBullet(content, e, line, para_idx) ==
    [content EXCEPT ![e.list][e.k].bullets =
        Append(@, [value |-> line.text, paragraph_index |-> para_idx])]

IsEntryHeader(line, section) ==
    \/ section = "EDUCATION" /\ "University" \in line.has
    \/ /\ section \in {"PROJECT EXPERIENCE", "LEADERSHIP EXPERIENCE"}
       /\ "bullet" \notin line.has /\ "dates" \in line.has /\ "," \in line.has
    \/ /\ section = "PROFESSIONAL EXPERIENCE"
       /\ "bullet" \notin line.has /\ "dates" \in line.has
       /\ ("," \in line.has \/ "|" \in line.has)

\* A line of no recognized shape where it stands: no section header, no entry
\* header, no skill line, no tech-stack line, and in the education section no
\* GPA, coursework or degree line.
Unrecognized(line, section) ==
    /\ line.header = ""
    /\ ~IsEntryHeader(line, section)
    /\ ~(section = "TECHNICAL SKILLS" /\ ":" \in line.has)
    /\ "Tech Stack:" \notin line.has
    /\ section = "EDUCATION" => line.has \cap {"GPA", "Coursework", "DegreeWord"} = {}

\* C25 as stated: reading a text never raises; a section header clears the
\* open entry; a text of no recognized shape is appended as a bullet to the
\* open entry when there is one, in whatever section, and dropped otherwise.
C25_UnrecognizedLineIsBulletOrDropped ==
    [][extraction'.paras # extraction.paras =>
          LET para_idx == Len(extraction.paras)
              line == extraction'.paras[para_idx + 1]
          IN  /\ ~extraction'.raised
              /\ line.header # "" => extraction'.current_entry = None
              /\ Unrecognized(line, extraction.current_section) =>
                    IF extraction.current_entry # None
                    THEN \E j \in 1..Len(BulletsOf(extraction'.content,
                                                   Val(extraction.current_entry))) :
                            BulletsOf(extraction'.content,
                                      Val(extraction.current_entry))[j].paragraph_index
                               = para_idx
                    ELSE Body(extraction'.content) = Body(extraction.content)]_vars

\* C25 amended: reading a text never raises; a section header sets the
\* current section and clears the open entry, and the open entry is always
\* the last entry of the current section's list; in the professional, project
\* and leadership sections a text of no recognized shape is appended as a
\* bullet to the open entry when there is one and dropped otherwise; in the
\* education and skills sections and before the first section header such a
\* text is dropped, an entry being open or not.
C25_BulletInExperienceSectionsElseDropped ==
    [][extraction'.paras # extraction.paras =>
          LET para_idx == Len(extraction.paras)
              line == extraction'.paras[para_idx + 1]
              section == extraction.current_section
              after == extraction'
          IN  /\ ~after.raised
              /\ line.header # "" =>
                    /\ after.current_entry = None
                    /\ after.current_section = line.header
                    /\ Body(after.content) = Body(extraction.content)
              /\ after.current_entry # None =>
                    /\ Val(after.current_entry).list = ListOf(after.current_section)
                    /\ Val(after.current_entry).k =
                          Len(after.content[ListOf(after.current_section)])
              /\ Unrecognized(line, section) =>
                    /\ after.current_section = section
                    /\ after.current_entry = extraction.current_entry
                    /\ Body(after.content) =
                          IF /\ section \in {"PROFESSIONAL EXPERIENCE", "PROJECT EXPERIENCE",
                                             "LEADERSHIP EXPERIENCE"}
                             /\ extraction.current_entry # None
                          THEN WithBullet(Body(extraction.content),
                                          Val(extraction.current_entry), line, para_idx)
                          ELSE Body(extraction.content)]_vars

\* A plain text was attached as a bullet to the entry open in the
\* professional section, and the next section header closed that entry.
C25_Witness ==
    /\ Len(extraction.paras) = 4
    /\ extraction.paras[1].header = "PROFESSIONAL EXPERIENCE"
    /\ IsEntryHeader(extraction.paras[2], "PROFESSIONAL EXPERIENCE")
    /\ Unrecognized(extraction.paras[3], "PROFESSIONAL EXPERIENCE")
    /\ extraction.paras[4].header = "LEADERSHIP EXPERIENCE"
    /\ Len(extraction.content.professional[1].bullets) = 1
    /\ extraction.content.professional[1].bullets[1].paragraph_index = 2
    /\ extraction.current_entry = None
    /\ ~extraction.raised

(***************************************************************************)
(*                    enhanced_app.py and api_server.py                    *)
(*                                                                         *)
(* The two callers of the optimizer and the builder.  Both keep the        *)
(* resume content in JSON files: the seed                                  *)
(* templates/resume_content_template.json and, for the UI, the working    *)
(* copy templates/resume_content.json.  The UI keeps the outcome of an    *)
(* optimization in st.session_state; the API answers each request with an *)
(* OptimizeResponse or an HTTP 500.                                       *)
(***************************************************************************)
\* The seed files of the application runs: one skills line or none, and the
\* professional section.
AppContents ==
    {MakeContent(keys, "professional", tech, v) :
        keys \in {{}, {"languages"}}, tech \in BOOLEAN, v \in ContentTexts}

\* What the transform answers in the application runs: a failure, or an object
\* whose optimized_resume names skills only.
AppResponses ==
    {r \in Responses :
        \/ ~r.has_optimized
        \/ /\ r.optimized.professional = AbsentList
           /\ r.optimized.projects = AbsentList
           /\ r.optimized.leadership = AbsentList}

\* What the transform answers in the runs of the UI: a failure, text that is
\* not JSON, a longer languages line, and a tools line the content may not have.
SkillsAnswer(l, t) ==
    [kind |-> "object", has_optimized |-> TRUE, has_report |-> TRUE,
     optimized |->
        [NoOptimized EXCEPT
            !.skills = [kind |-> "dict",
                        items |-> [k \in ResponseSkillKeys |->
                                     IF k = "languages" THEN l
                                     ELSE IF k = "tools" THEN t ELSE RAbsent]]]]

UiResponses ==
    {r \in Responses : r.kind \in {"api_error", "not_json"}}
    \cup {SkillsAnswer(RStr(LongText), RAbsent), SkillsAnswer(RAbsent, RStr(ShortText))}

\* The same JSON as build_resume_from_json reads it: the skills in the order
\* of the dict, every entry of the professional section at its place in the
\* reference document.  The seeds have no project and no leadership entries.
SkillOrder == <<"languages", "frameworks", "software", "tools">>

AsSkillIndex(k, p) ==
    IF p = Some(SkillParagraph(k)) /\ k = "languages" THEN Some(SkillsAt) ELSE p

AsContentMap(content) ==
    LET base == ContentMap(MaxEducation, MaxCoursework, <<"3.9/4.0">>, <<"2021">>,
                           <<"Built things">>)
        keys == SelectSeq(SkillOrder, LAMBDA k : k \in DOMAIN content.skills)
    IN  [base EXCEPT
            !.skills = [n \in 1..Len(keys) |->
                          [key |-> keys[n],
                           label |-> content.skills[keys[n]].label,
                           value |-> content.skills[keys[n]].value,
                           paragraph_index |->
                              AsSkillIndex(keys[n], content.skills[keys[n]].paragraph_index)]],
            !.professional =
                [i \in 1..Len(content.professional) |->
                    [ProfessionalEntry(i, <<"2021">>, <<>>) EXCEPT
                        !.tech_stack =
                            IF content.professional[i].tech_stack.kind = "dict"
                            THEN Some(Indexed(content.professional[i].tech_stack.value,
                                              ProfessionalAt(i) + 1))
                            ELSE None,
                        !.bullets =
                            [j \in 1..Len(content.professional[i].bullets) |->
                                Indexed(content.professional[i].bullets[j].value,
                                        ProfessionalAt(i) + 1 + j)]]],
            !.projects = <<>>,
            !.leadership = <<>>]

\* EnhancedFormatBuilder(ORIGINAL_RESUME, FORMAT_METADATA_JSON)
\*     .build_resume_from_json(content, temp_path)
\* with the reference document and the metadata extracted from it.
AppReference == ReferenceDoc([named |-> TRUE, uniform |-> FALSE, indent |-> Some(3)])

AppBuild(content) ==
    build_resume_from_json(extract_complete_format_metadata(AppReference),
                           AppReference, AsContentMap(content))

\* ---- st.session_state ------------------------------------------------------------
NoSession ==
    [optimization_done |-> FALSE, optimized_content |-> None,
     optimization_report |-> None, applied_content |-> None,
     optimization_applied |-> FALSE]

\* The copy made in the wrong direction.
ResetWritingSeed(seed, working) ==
    [seed |-> IF working = None THEN seed ELSE Val(working),
     working |-> IF working = None THEN Some(seed) ELSE working]

\* reset_to_template(): shutil.copy(RESUME_CONTENT_TEMPLATE, RESUME_CONTENT_JSON)
reset_to_template(seed, working) == [seed |-> seed, working |-> Some(seed)]

AppFonts == {f \in OptFonts : f.width["W"] = MaxGlyphWidth}

\* Callers of the API, and the seconds the server's clock goes through.
MaxCallers == 2
MaxClock == 1
Callers == 1..MaxCallers

\* The server has just started: nothing generated, nobody answered.
SrvInit ==
    /\ clock = 0
    /\ api_generated = [name \in {} |-> None]
    /\ answers = [c \in Callers |-> None]
    /\ downloads = [c \in Callers |-> None]

AppIdle ==
    /\ seed_file = EmptyContent
    /\ working_file = None
    /\ session_state = NoSession
    /\ generated = None
    /\ api_response = None
    /\ last_op = "none"
    /\ SrvInit
    /\ ExtInit

\* The seeds of the runs of the UI: a languages line and a professional entry.
UiContents == {c \in AppContents : DOMAIN c.skills # {} /\ c.professional[1].tech_stack.kind = "dict"}

AppInit ==
    /\ seed_file \in AppContents
    /\ working_file = None
    /\ session_state = NoSession
    /\ generated = None
    /\ api_response = None
    /\ last_op = "none"
    /\ SrvInit
    /\ ExtInit

AppFrame ==
    UNCHANGED <<prefix, current_text, original_text, num_lines, reported_len, font,
                char_limits, validation, api_calls, bldVars>>

\* Every run of the script (lines 42-50): the working copy is created from the
\* seed when it does not exist.
LoadPage ==
    /\ working_file = None
    /\ working_file' = reset_to_template(seed_file, working_file).working
    /\ seed_file' = reset_to_template(seed_file, working_file).seed
    /\ last_op' = "load"
    /\ UNCHANGED <<session_state, generated, api_response, optVars>>
    /\ UNCHANGED <<limVars, bldVars, srvVars, extVars>>

\* "Optimize Resume for ATS" (lines 233-264): resume_data is the working copy.
UiOptimize(resp) ==
    /\ working_file # None
    /\ \E result \in {optimize_resume(font, Val(working_file), resp)} :
          session_state' =
              IF result.status = "returned"
              THEN [session_state EXCEPT
                       !.optimization_done = TRUE,
                       !.optimized_content = Some(result.content),
                       !.optimization_report = Some(result.report)]
              ELSE session_state
    /\ resume_content' = Val(working_file)
    /\ last_op' = "optimize"
    /\ UNCHANGED <<seed_file, working_file, generated, api_response,
                   char_limits, response, api_calls, opt_result, validation>>
    /\ UNCHANGED <<limVars, bldVars, srvVars, extVars>>

\* "Apply Optimization" (lines 670-693); writable: the file system takes the
\* write (it does not on a read-only deployment, and the error is caught).
ApplyOptimization(writable) ==
    /\ working_file # None
    /\ session_state.optimization_done
    /\ working_file' = IF writable THEN session_state.optimized_content ELSE working_file
    /\ session_state' = [session_state EXCEPT
                            !.applied_content = session_state.optimized_content,
                            !.optimization_applied = TRUE]
    /\ last_op' = "apply"
    /\ UNCHANGED <<seed_file, generated, api_response, optVars>>
    /\ UNCHANGED <<limVars, bldVars, srvVars, extVars>>

\* "Discard Changes" (lines 702-715)
DiscardChanges ==
    /\ working_file # None
    /\ session_state.optimization_done
    /\ session_state' = NoSession
    /\ last_op' = "discard"
    /\ UNCHANGED <<seed_file, working_file, generated, api_response, optVars>>
    /\ UNCHANGED <<limVars, bldVars, srvVars, extVars>>

\* "Start New Optimization" (lines 204-218)
StartNewOptimization ==
    /\ working_file # None
    /\ session_state.optimization_done
    /\ session_state' = NoSession
    /\ last_op' = "start_new"
    /\ UNCHANGED <<seed_file, working_file, generated, api_response, optVars>>
    /\ UNCHANGED <<limVars, bldVars, srvVars, extVars>>

\* "Reset to Template" (lines 508-525); when the copy raises, the handler
\* reports the error and clears nothing.
ResetToTemplate(writable) ==
    /\ working_file # None
    /\ session_state.optimization_done
    /\ IF writable
       THEN /\ working_file' = reset_to_template(seed_file, working_file).working
            /\ seed_file' = reset_to_template(seed_file, working_file).seed
            /\ session_state' = NoSession
            /\ last_op' = "reset"
       ELSE /\ UNCHANGED <<seed_file, working_file, session_state>>
            /\ last_op' = "reset_failed"
    /\ UNCHANGED <<generated, api_response, optVars>>
    /\ UNCHANGED <<limVars, bldVars, srvVars, extVars>>

\* The outcome of a generation: the document, or the error the handler shows.
Generated(content) ==
    LET built == AppBuild(content)
    IN  [status |-> built.status,
         document |-> IF built.status = "returned" THEN Some(built.output) ELSE None]

\* "Regenerate Resume PDF" (lines 417-480): applied_content, else
\* optimized_content, else the working copy.
RegenerateResume ==
    /\ working_file # None
    /\ session_state.optimization_done
    /\ generated' =
          Some(Generated(IF session_state.applied_content # None
                         THEN Val(session_state.applied_content)
                         ELSE IF session_state.optimized_content # None
                         THEN Val(session_state.optimized_content)
                         ELSE Val(working_file)))
    /\ last_op' = "generate"
    /\ UNCHANGED <<seed_file, working_file, session_state, api_response, optVars>>
    /\ UNCHANGED <<limVars, bldVars, srvVars, extVars>>

\* The skills of the tabs merged over the file's (lines 1207-1221): edit is
\* what the user typed in the languages field, None when nothing.
WithTabEdits(content, edit) ==
    IF edit # None /\ "languages" \in DOMAIN content.skills
    THEN [content EXCEPT !.skills["languages"].value = Val(edit)]
    ELSE content

\* "Generate Resume" (lines 1180-1240): applied_content, else the working copy
\* with the edits of the tabs.
GenerateResume(edit) ==
    /\ working_file # None
    /\ generated' =
          Some(Generated(IF session_state.applied_content # None
                         THEN Val(session_state.applied_content)
                         ELSE WithTabEdits(Val(working_file), edit)))
    /\ last_op' = "generate"
    /\ UNCHANGED <<seed_file, working_file, session_state, api_response, optVars>>
    /\ UNCHANGED <<limVars, bldVars, srvVars, extVars>>

\* ---- POST /api/v1/optimize ---------------------------------------------------------
\* class OptimizeResponse: the fields of the answer.  The file name is
\* resume_dilip_kumar_tc_<timestamp>.docx, the timestamp being
\* datetime.now().strftime("%Y%m%d_%H%M%S"): the name is the second.
OptimizeResponse(report, fmt, document, timestamp) ==
    [status |-> "success",
     message |-> "Resume optimized successfully",
     download_url |-> IF fmt = "file" THEN Some(timestamp) ELSE None,
     filename |-> Some(timestamp),
     match_score |-> IF report.from_response THEN Some("estimate") ELSE Some("Unknown"),
     keywords_added |-> Some(0),
     resume_base64 |-> IF fmt = "base64" THEN Some(document) ELSE None]

HttpError ==
    [status_code |-> 500, body |-> [detail |-> "Optimization failed"], output_file |-> None]

\* The handler (lines 195-299): the seed is loaded, optimized, built into a
\* temporary file of its own (NamedTemporaryFile) and answered; for "file"
\* the temporary file is copied to output/api_generated under the name of
\* the current second, replacing a file of that name.  Every exception
\* becomes an HTTP 500.  The handler is a coroutine that never awaits, so the
\* server runs it from start to end without another request in between.
ApiOptimize(caller, resp, fmt) ==
    /\ \E result \in {optimize_resume(font, seed_file, resp)} :
       \E built \in {AppBuild(result.content)} :
       \E timestamp \in {clock} :
       \E answer \in {IF result.status = "raised" THEN HttpError
                      ELSE IF built.status = "raised" THEN HttpError
                      ELSE [status_code |-> 200,
                            body |-> OptimizeResponse(result.report, fmt, built.output,
                                                      timestamp),
                            output_file |-> IF fmt = "file" THEN Some(built.output)
                                            ELSE None]} :
           /\ resume_content' = seed_file
           /\ response' = Some(resp)
           /\ opt_result' = Some(result)
           /\ api_response' = Some(answer)
           /\ answers' = [answers EXCEPT ![caller] = Some(answer)]
           /\ api_generated' =
                 IF answer.output_file # None
                 THEN (timestamp :> Val(answer.output_file)) @@ api_generated
                 ELSE api_generated
    /\ last_op' = "api_optimize"
    /\ UNCHANGED <<seed_file, working_file, session_state, generated, clock, downloads, extVars>>
    /\ AppFrame

\* GET /api/v1/download/{filename} (lines 311-335) with the file name of the
\* caller's answer: the file of that name as it is now, or 404.
DownloadResume(caller) ==
    /\ answers[caller] # None
    /\ Val(answers[caller]).status_code = 200
    /\ Val(answers[caller]).body.download_url # None
    /\ downloads[caller] = None
    /\ LET filename == Val(Val(answers[caller]).body.download_url)
       IN  downloads' =
              [downloads EXCEPT ![caller] =
                  IF filename \in DOMAIN api_generated
                  THEN Some([status_code |-> 200, file |-> Some(api_generated[filename])])
                  ELSE Some([status_code |-> 404, file |-> None])]
    /\ last_op' = "download"
    /\ UNCHANGED <<seed_file, working_file, session_state, generated, api_response,
                   clock, api_generated, answers, optVars, limVars, bldVars, extVars>>

\* A second passes on the server's clock.
Tick ==
    /\ clock < MaxClock
    /\ clock' = clock + 1
    /\ UNCHANGED <<seed_file, working_file, session_state, generated, api_response,
                   last_op, api_generated, answers, downloads, optVars, limVars, bldVars, extVars>>

AppNext ==
    \/ LoadPage
    \/ \E resp \in UiResponses : UiOptimize(resp)
    \/ \E writable \in BOOLEAN : ApplyOptimization(writable)
    \/ DiscardChanges
    \/ StartNewOptimization
    \/ \E writable \in BOOLEAN : ResetToTemplate(writable)
    \/ RegenerateResume
    \/ \E edit \in {None, Some(LongText)} : GenerateResume(edit)
    \/ \E resp \in UiResponses : ApiOptimize(1, resp, "file")

\* The UI alone: one session working on its draft.
DraftNext ==
    \/ LoadPage
    \/ \E resp \in UiResponses : UiOptimize(resp)
    \/ \E writable \in BOOLEAN : ApplyOptimization(writable)
    \/ DiscardChanges
    \/ StartNewOptimization
    \/ \E writable \in BOOLEAN : ResetToTemplate(writable)
    \/ RegenerateResume
    \/ \E edit \in {None, Some(LongText)} : GenerateResume(edit)

\* The API alone, with every answer of AppResponses.
ApiNext == \E resp \in AppResponses, fmt \in {"file", "base64"} : ApiOptimize(1, resp, fmt)

\* The server with several callers: each posts one job description, the
\* transform answering each in its own way, and downloads its file.
ServerResponses == {SkillsAnswer(RStr(LongText), RAbsent), SkillsAnswer(RStr(ShortText), RAbsent)}

ServerNext ==
    \/ \E c \in Callers, resp \in ServerResponses, fmt \in {"file", "base64"} :
          answers[c] = None /\ ApiOptimize(c, resp, fmt)
    \/ \E c \in Callers : DownloadResume(c)
    \/ Tick

\* ---- claims on the callers -------------------------------------------------------
\* The optimize_resume call of the last API request returned a report whose
\* validation lists a violation or a warning.
ValidationFound ==
    /\ api_response # None
    /\ Val(opt_result).status = "returned"
    /\ LET v == Val(Val(opt_result).report.char_limit_validation)
       IN  v.violations # {} \/ v.warnings # {}

\* The answer is a success that carries the document: the file to download
\* or the base64 text.
ApiReturnsDocument ==
    /\ Val(api_response).status_code = 200
    /\ \/ Val(api_response).output_file # None
       \/ Val(api_response).body.resume_base64 # None

\* The answer has the validation's violations and warnings among its fields.
ApiCarriesValidation ==
    \E f \in DOMAIN Val(api_response).body :
        f \in {"char_limit_validation", "violations", "warnings"}

\* ---- C11 ------------------------------------------------------------------
\* C11: whenever the validation of an optimize request finds violations or
\* warnings, the request is still answered with the built document, and the
\* violations and warnings are in the optimizer's report and in the answer of
\* /api/v1/optimize together with the document.
C11_ViolationsReturnedWithDocument ==
    ValidationFound =>
        /\ ApiReturnsDocument
        /\ Val(opt_result).report.char_limit_validation # None
        /\ ApiCarriesValidation

\* ---- C12 ------------------------------------------------------------------
\* C12: no operation of the UI or the API writes the seed file, and right
\* after a reset the working copy equals the seed.
C12_SeedNeverWrittenResetRestores ==
    [][/\ seed_file' = seed_file
       /\ last_op' = "reset" => working_file' = Some(seed_file')]_vars

\* A reset has run after a document was generated from content other than
\* the seed's.
C12_Witness ==
    /\ last_op = "reset"
    /\ working_file = Some(seed_file)
    /\ generated # None
    /\ Val(generated) # Generated(seed_file)

\* ---- C23 ------------------------------------------------------------------
\* Caller c was answered with a file to download.
AnsweredWithFile(c) ==
    /\ answers[c] # None
    /\ Val(answers[c]).status_code = 200
    /\ Val(answers[c]).output_file # None

\* C23: requests never share a file path, so whatever the order of the
\* requests and downloads, the file under the name a caller was given is the
\* document built for that caller, and so is the file the caller downloads.
C23_CallersGetTheirOwnDocument ==
    \A c \in Callers :
        AnsweredWithFile(c) =>
            LET filename == Val(Val(answers[c]).body.filename)
            IN  /\ \A d \in Callers \ {c} :
                      AnsweredWithFile(d) => Val(Val(answers[d]).body.filename) # filename
                /\ filename \in DOMAIN api_generated
                /\ api_generated[filename] = Val(Val(answers[c]).output_file)
                /\ downloads[c] # None =>
                      Val(downloads[c]).file = Val(answers[c]).output_file

\* ---- C28 ------------------------------------------------------------------
\* C28: after "Discard Changes", whatever Optimize and Apply steps came
\* before, the session holds none of the optimization keys and the working
\* copy is the content the optimization was run on; a Generate that follows
\* builds from that content (with the edits of the tabs).
C28_DiscardRestoresDraft ==
    [][/\ last_op' = "discard" =>
             /\ session_state' = NoSession
             /\ working_file' = Some(resume_content')
       /\ (last_op = "discard" /\ last_op' = "generate") =>
             \E edit \in {None, Some(LongText)} :
                 Val(generated') = Generated(WithTabEdits(resume_content, edit))]_vars

(***************************************************************************)
(*                             specifications                              *)
(***************************************************************************)
InitLimiter == LimInit /\ OptIdle /\ BldIdle /\ AppIdle
SpecLimiter == InitLimiter /\ [][LimNext]_vars

InitOptimizer ==
    /\ font \in OptFonts
    /\ prefix = <<>> /\ current_text = <<>> /\ original_text = <<>>
    /\ num_lines = None /\ reported_len = None
    /\ OptInit /\ BldIdle /\ AppIdle
SpecOptimizer == InitOptimizer /\ [][OptNext]_vars

InitBuilder == LimIdle /\ OptIdle /\ BldInit /\ AppIdle
SpecBuilder == InitBuilder /\ [][BldNext]_vars

InitMultirun == LimIdle /\ OptIdle /\ MultirunInit /\ AppIdle
SpecMultirun == InitMultirun /\ [][MultirunNext]_vars

InitValidate == LimIdle /\ ValInit /\ BldIdle /\ AppIdle
SpecValidate == InitValidate /\ [][ValNext]_vars

InitApp ==
    /\ font \in AppFonts
    /\ prefix = <<>> /\ current_text = <<>> /\ original_text = <<>>
    /\ num_lines = None /\ reported_len = None
    /\ OptIdle /\ BldIdle /\ AppInit
SpecApi == InitApp /\ [][ApiNext]_vars

InitUi ==
    /\ InitApp
    /\ seed_file \in UiContents
    /\ font.width["bullet"] = MinGlyphWidth
SpecApp == InitUi /\ [][AppNext]_vars
InitEdited == LimIdle /\ OptIdle /\ BldEdited /\ AppIdle
SpecEdited == InitEdited /\ [][BldNext]_vars

InitReplace == LimIdle /\ OptIdle /\ ReplaceInit /\ AppIdle
SpecReplace == InitReplace /\ [][ReplaceNext]_vars

SpecServer == InitUi /\ [][ServerNext]_vars

SpecDraft == InitUi /\ [][DraftNext]_vars

InitExtract == LimIdle /\ OptIdle /\ BldIdle /\ AppIdle
SpecExtract == InitExtract /\ [][ExtNext]_vars

====
